---- MODULE Spec2Model ----
(***************************************************************************)
(* Model of the domain core of rust-emergency-response-server (lib-types): *)
(* the patient lifecycle, the hospital bed inventory, the staff roster,    *)
(* the vitals severity model and the error taxonomy.                       *)
(*                                                                         *)
(* Every entity method is an operator that takes the entity record (self)  *)
(* and returns the entity after the call; the actions apply the operators  *)
(* to the state variables.  Utc::now() is the logical clock `now`, which   *)
(* advances by one on every call that reads it.                            *)
(***************************************************************************)
EXTENDS Integers, Sequences, FiniteSets, TLC

VARIABLES
    patient,    \* entities::Patient
    hospital,   \* entities::Hospital
    staff,      \* entities::MedicalStaff
    vitals,     \* entities::PatientVitals
    err,        \* the domain error handed to status_code
    now,        \* Utc::now()
    ret,        \* the last call: its name, its arguments, what it returned
    pc,         \* position of each call in flight
    beds,       \* the bed types of which a bed is available
    visited,    \* history: the statuses the patient was given, in order
    db,         \* config::DatabaseConfig and the run of create_pool on it
    list,       \* dtos::HospitalListResponse
    request     \* dtos::LoginRequest

vars == <<patient, hospital, staff, vitals, err, now, ret, pc, beds, visited,
          db, list, request>>

\* ---------------------------------------------------------------- bounds
\* Number of clock-reading calls explored in one behaviour.
MaxClock == 6
\* Hospital::new is given total_beds in -NegBeds..MaxBeds (total_beds is an
\* i32: nothing in the code rejects a negative count), or ScenarioBeds.
NegBeds == 2
MaxBeds == 10
\* Total beds of the hospitals the assignment requests run against.
RaceBeds == 5
AssignBeds == 2
\* Number of mutating calls made on one staff member or one patient.
MaxCalls == 5
MaxUsername == 3
MaxPassword == 7
MaxHospitals == 3
\* The hospital of the code's tests: 100 beds.
ScenarioBeds == 100

\* Option<T>: None is the empty sequence, Some(x) the sequence holding x.
None == << >>
Some(x) == <<x>>

\* The value of a call that returns nothing: fn(..) -> ().
Unit == [variant |-> "Unit"]

\* Vec::contains
Contains(v, x) == \E i \in DOMAIN v : v[i] = x

\* ------------------------------------------------------------ enums
TriageLevels == {"Critical", "High", "Medium", "Low"}

PatientStatuses == {"Dispatched", "EnRoute", "Arrived", "Admitted", "Discharged"}

\* Successors that let the dispatch go straight to the arrival.
next_statuses_Skip(s) ==
    CASE s = "Dispatched" -> <<"EnRoute", "Arrived">>
      [] s = "EnRoute"    -> <<"Arrived">>
      [] s = "Arrived"    -> <<"Admitted">>
      [] s = "Admitted"   -> <<"Discharged">>
      [] s = "Discharged" -> << >>

\* PatientStatus::next_statuses
next_statuses(s) ==
    CASE s = "Dispatched" -> <<"EnRoute">>
      [] s = "EnRoute"    -> <<"Arrived">>
      [] s = "Arrived"    -> <<"Admitted">>
      [] s = "Admitted"   -> <<"Discharged">>
      [] s = "Discharged" -> << >>

\* PatientStatus::workflow_order
workflow_order(s) ==
    CASE s = "Dispatched" -> 1
      [] s = "EnRoute"    -> 2
      [] s = "Arrived"    -> 3
      [] s = "Admitted"   -> 4
      [] s = "Discharged" -> 5

\* ------------------------------------------------------------ Patient
\* Patient::new: status Dispatched, no assignments, no allergies.
Patient_new(patient_number, national_id, first_name, last_name, triage_level, t) ==
    [ patient_number    |-> patient_number,
      national_id       |-> national_id,
      first_name        |-> first_name,
      last_name         |-> last_name,
      triage_level      |-> triage_level,
      status            |-> "Dispatched",
      assigned_staff_id |-> None,
      ambulance_id      |-> None,
      bed_id            |-> None,
      allergies         |-> << >>,
      updated_at        |-> t ]

\* format!("{} {}", self.first_name, self.last_name), as its pieces.
Patient_full_name(self) == <<self.first_name, " ", self.last_name>>

Patient_is_anonymous(self) ==
    self.national_id = None \/ self.national_id[1] = ""

Patient_display_name(self) ==
    IF Patient_is_anonymous(self)
    THEN <<"Anonymous Patient (", self.patient_number, ")">>
    ELSE Patient_full_name(self)

\* The condition of the `if` in Patient::update_status.
update_status_applies(self, new_status) ==
    LET ns == next_statuses(self.status)
    IN  Contains(ns, new_status) \/ ns = << >>

\* An update_status that also lowers the triage level once it applies.
update_status_Retriage(self, new_status, t) ==
    IF update_status_applies(self, new_status)
    THEN [self EXCEPT !.status = new_status, !.updated_at = t, !.triage_level = "Low"]
    ELSE self

\* Patient::update_status
update_status(self, new_status, t) ==
    IF update_status_applies(self, new_status)
    THEN [self EXCEPT !.status = new_status, !.updated_at = t]
    ELSE self

\* Patient::assign_staff
assign_staff(self, staff_id, t) ==
    [self EXCEPT !.assigned_staff_id = Some(staff_id), !.updated_at = t]

\* Patient::assign_ambulance
assign_ambulance(self, ambulance_id, t) ==
    [self EXCEPT !.ambulance_id = Some(ambulance_id), !.updated_at = t]

\* An assign_bed that takes the patient out of the ambulance.
assign_bed_LeavesAmbulance(self, bed_id, t) ==
    [self EXCEPT !.bed_id = Some(bed_id), !.ambulance_id = None,
                 !.updated_at = t]

\* Patient::assign_bed
assign_bed(self, bed_id, t) ==
    [self EXCEPT !.bed_id = Some(bed_id), !.updated_at = t]

\* Patient::add_allergy: pushed, and the patient stamped, unless an entry
\* equal to it is already stored.
add_allergy(self, allergy, t) ==
    IF ~Contains(self.allergies, allergy)
    THEN [self EXCEPT !.allergies = Append(@, allergy), !.updated_at = t]
    ELSE self

\* ------------------------------------------------------------ Hospital
\* Hospital::new: every bed is available, status "Active".
Hospital_new(total_beds, t) ==
    [ total_beds     |-> total_beds,
      available_beds |-> total_beds,
      status         |-> "Active",
      updated_at     |-> t ]

\* i32::max, i32::min
Max(a, b) == IF a >= b THEN a ELSE b
Min(a, b) == IF a <= b THEN a ELSE b

\* Mutant of update_available_beds: the lower clamp .max(0) is left out.
update_available_beds_NoFloor(self, available_beds, t) ==
    [self EXCEPT !.available_beds = Min(available_beds, self.total_beds),
                 !.updated_at = t]

\* Hospital::update_available_beds: available_beds.max(0).min(self.total_beds)
update_available_beds(self, available_beds, t) ==
    [self EXCEPT !.available_beds = Min(Max(available_beds, 0), self.total_beds),
                 !.updated_at = t]

\* Hospital::has_available_beds
has_available_beds(self) == self.available_beds > 0

\* Hospital::is_at_capacity
is_at_capacity(self) == self.available_beds <= 0

\* Hospital::occupancy_percentage() > pct, for a whole number pct.
\* The code computes (occupied as f64 / total as f64) * 100.0 and compares it
\* with the literal; for i32 operands and the literals 90.0 and 70.0 the f64
\* comparison agrees with the exact one, which is stated here on integers
\* (the sign of total_beds decides the direction after cross-multiplying).
occupancy_exceeds(self, pct) ==
    LET occupied_beds == self.total_beds - self.available_beds
    IN  IF self.total_beds = 0 THEN 0 > pct
        ELSE IF self.total_beds > 0
             THEN occupied_beds * 100 > pct * self.total_beds
             ELSE occupied_beds * 100 < pct * self.total_beds

\* Mutant of is_nearly_full: occupancy_percentage() >= 90.0, not > 90.0.
is_nearly_full_AtLeast(self) ==
    /\ self.total_beds > 0
    /\ (self.total_beds - self.available_beds) * 100 >= 90 * self.total_beds

\* Hospital::is_nearly_full
is_nearly_full(self) == occupancy_exceeds(self, 90)

\* Hospital::capacity_status
capacity_status(self) ==
    IF is_at_capacity(self) THEN "Full"
    ELSE IF is_nearly_full(self) THEN "Nearly Full"
    ELSE IF occupancy_exceeds(self, 70) THEN "Busy"
    ELSE "Available"

\* The values of Hospital.status.
HospitalStatuses == {"Active", "Maintenance", "Emergency Only"}

\* A response that reports on the beds alone.
HospitalResponse_from_hospital_BedsOnly(hospital_) ==
    [ total_beds      |-> hospital_.total_beds,
      available_beds  |-> hospital_.available_beds,
      status          |-> hospital_.status,
      capacity_status |->
          [ status_text           |-> capacity_status(hospital_),
            is_accepting_patients |-> has_available_beds(hospital_) ] ]

\* HospitalResponse::from_hospital: the snapshot of the hospital, with the
\* CapacityStatus computed at that moment.
HospitalResponse_from_hospital(hospital_) ==
    [ total_beds      |-> hospital_.total_beds,
      available_beds  |-> hospital_.available_beds,
      status          |-> hospital_.status,
      capacity_status |->
          [ status_text           |-> capacity_status(hospital_),
            is_accepting_patients |->
                has_available_beds(hospital_) /\ hospital_.status = "Active" ] ]

\* HospitalResponse::can_accept_patients
can_accept_patients(self) == self.capacity_status.is_accepting_patients

\* ------------------------------------------------------------ MedicalStaff
AvailabilityStatuses == {"Available", "Busy", "OffDuty", "OnCall"}

\* An assignment test that leaves the on-call staff out.
can_take_assignment_AvailableOnly(status) == status = "Available"

\* AvailabilityStatus::can_take_assignment
can_take_assignment(status) == status \in {"Available", "OnCall"}

\* AvailabilityStatus::is_working
AvailabilityStatus_is_working(status) == status \in {"Available", "Busy", "OnCall"}

\* A priority that ranks the busy staff before the staff on call.
AvailabilityStatus_assignment_priority_BusyFirst(status) ==
    CASE status = "Available" -> 1
      [] status = "Busy"      -> 2
      [] status = "OnCall"    -> 3
      [] status = "OffDuty"   -> 4

\* AvailabilityStatus::assignment_priority (lower is assigned first)
AvailabilityStatus_assignment_priority(status) ==
    CASE status = "Available" -> 1
      [] status = "OnCall"    -> 2
      [] status = "Busy"      -> 3
      [] status = "OffDuty"   -> 4

\* MedicalStaff::new: availability Available; the certifications are the
\* vector handed in, stored as it is.
MedicalStaff_new(seniority_level, certifications, t) ==
    [ availability_status |-> "Available",
      seniority_level     |-> seniority_level,
      certifications      |-> certifications,
      updated_at          |-> t ]

\* MedicalStaff::can_take_assignment
MedicalStaff_can_take_assignment(self) ==
    can_take_assignment(self.availability_status)

\* MedicalStaff::is_working
MedicalStaff_is_working(self) ==
    AvailabilityStatus_is_working(self.availability_status)

\* MedicalStaff::update_availability
update_availability(self, status, t) ==
    [self EXCEPT !.availability_status = status, !.updated_at = t]

\* MedicalStaff::add_certification: pushed, and the record stamped, unless an
\* entry equal to it (as a string, letter case included) is already stored.
add_certification(self, certification, t) ==
    IF ~Contains(self.certifications, certification)
    THEN [self EXCEPT !.certifications = Append(@, certification), !.updated_at = t]
    ELSE self

\* The seniority bonus of MedicalStaff::assignment_priority: a match on the
\* seniority string, any string it does not name scoring 4.
seniority_bonus(seniority_level) ==
    CASE seniority_level = "Director"   -> 0
      [] seniority_level = "Consultant" -> 1
      [] seniority_level = "Senior"     -> 2
      [] seniority_level = "Junior"     -> 3
      [] OTHER                          -> 4

\* A priority in which the availability tier is not scaled.
MedicalStaff_assignment_priority_Unscaled(self) ==
    AvailabilityStatus_assignment_priority(self.availability_status)
        + seniority_bonus(self.seniority_level)

\* MedicalStaff::assignment_priority, a u8: at most 4 * 10 + 4, so the
\* arithmetic never leaves the type.
MedicalStaff_assignment_priority(self) ==
    (AvailabilityStatus_assignment_priority(self.availability_status) * 10)
        + seniority_bonus(self.seniority_level)

\* ----------------------------------------------------------------- BedType
BedTypes == {"General", "Icu", "Emergency", "Isolation", "Pediatric"}

\* A suitability in which the emergency ward takes no High patient.
is_suitable_for_triage_CriticalOnly(self, triage_level) ==
    \/ self \in {"Icu", "Emergency"} /\ triage_level = "Critical"
    \/ self = "General" /\ triage_level \in {"Medium", "Low"}
    \/ self = "Isolation"

\* BedType::is_suitable_for_triage: the match on (bed type, triage level),
\* arm by arm.
is_suitable_for_triage(self, triage_level) ==
    CASE self = "Icu" /\ triage_level = "Critical"                -> TRUE
      [] self = "Emergency" /\ triage_level \in {"Critical", "High"} -> TRUE
      [] self = "General" /\ triage_level \in {"Medium", "Low"}   -> TRUE
      [] self = "Isolation"                                       -> TRUE
      [] self = "Pediatric"                                       -> FALSE
      [] OTHER                                                    -> FALSE

\* A priority that puts the emergency ward before intensive care.
BedType_assignment_priority_EmergencyFirst(self) ==
    CASE self = "Emergency" -> 1
      [] self = "Icu"       -> 2
      [] self = "Isolation" -> 3
      [] self = "Pediatric" -> 4
      [] self = "General"   -> 5

\* BedType::assignment_priority (lower is assigned first)
BedType_assignment_priority(self) ==
    CASE self = "Icu"       -> 1
      [] self = "Emergency" -> 2
      [] self = "Isolation" -> 3
      [] self = "Pediatric" -> 4
      [] self = "General"   -> 5

\* Bed selection: among the bed types of which a bed is available and which
\* suit the triage level, the one of lowest assignment priority; none when
\* no type qualifies.
select_bed(available, triage_level) ==
    LET candidates == { b \in available : is_suitable_for_triage(b, triage_level) }
    IN  IF candidates = {} THEN None
        ELSE Some(CHOOSE b \in candidates :
                    \A c \in candidates :
                        BedType_assignment_priority(b) <= BedType_assignment_priority(c))

\* ------------------------------------------------------------ PatientVitals
\* PatientVitals::new: nothing recorded.  Temperature is held in tenths of a
\* degree Celsius (370 is 37.0); the thresholds 35.0, 36.0, 38.5 and 40.0 are
\* exact in f32, so the comparisons on tenths agree with the code's.
PatientVitals_new ==
    [ systolic_bp       |-> None,
      diastolic_bp      |-> None,
      heart_rate        |-> None,
      oxygen_saturation |-> None,
      temperature       |-> None ]

\* A blood-pressure assessment that looks for a low reading first.
bp_assessment_LowFirst(self) ==
    IF self.systolic_bp # None /\ self.diastolic_bp # None
    THEN LET sys == self.systolic_bp[1]
             dia == self.diastolic_bp[1]
         IN  IF sys < 90 \/ dia < 60 THEN "Low"
             ELSE IF sys >= 180 \/ dia >= 120 THEN "Critical"
             ELSE IF sys >= 140 \/ dia >= 90 THEN "High"
             ELSE "Normal"
    ELSE "Unknown"

\* PatientVitals::bp_assessment (with blood_pressure: both readings or nothing)
bp_assessment(self) ==
    IF self.systolic_bp # None /\ self.diastolic_bp # None
    THEN LET sys == self.systolic_bp[1]
             dia == self.diastolic_bp[1]
         IN  IF sys >= 180 \/ dia >= 120 THEN "Critical"
             ELSE IF sys >= 140 \/ dia >= 90 THEN "High"
             ELSE IF sys < 90 \/ dia < 60 THEN "Low"
             ELSE "Normal"
    ELSE "Unknown"

\* PatientVitals::hr_assessment
hr_assessment(self) ==
    IF self.heart_rate # None
    THEN LET hr == self.heart_rate[1]
         IN  IF hr < 50 \/ hr > 120 THEN "Critical"
             ELSE IF hr < 60 \/ hr > 100 THEN "High"
             ELSE "Normal"
    ELSE "Unknown"

\* PatientVitals::o2_assessment
o2_assessment(self) ==
    IF self.oxygen_saturation # None
    THEN LET o2 == self.oxygen_saturation[1]
         IN  IF o2 < 90 THEN "Critical"
             ELSE IF o2 < 95 THEN "High"
             ELSE "Normal"
    ELSE "Unknown"

\* PatientVitals::temp_assessment
temp_assessment(self) ==
    IF self.temperature # None
    THEN LET temp == self.temperature[1]
         IN  IF temp < 350 \/ temp > 400 THEN "Critical"
             ELSE IF temp < 360 \/ temp > 385 THEN "High"
             ELSE "Normal"
    ELSE "Unknown"

\* The array built at the top of PatientVitals::overall_assessment.
assessments(self) ==
    << bp_assessment(self), hr_assessment(self),
       o2_assessment(self), temp_assessment(self) >>

\* Mutant of overall_assessment: High is looked for before Critical.
overall_assessment_HighFirst(self) ==
    LET a == assessments(self)
    IN  IF \E i \in DOMAIN a : a[i] = "High" THEN "High"
        ELSE IF \E i \in DOMAIN a : a[i] = "Critical" THEN "Critical"
        ELSE IF \E i \in DOMAIN a : a[i] = "Low" THEN "Low"
        ELSE IF \A i \in DOMAIN a : a[i] = "Normal" THEN "Normal"
        ELSE "Unknown"

\* PatientVitals::overall_assessment
overall_assessment(self) ==
    LET a == assessments(self)
    IN  IF \E i \in DOMAIN a : a[i] = "Critical" THEN "Critical"
        ELSE IF \E i \in DOMAIN a : a[i] = "High" THEN "High"
        ELSE IF \E i \in DOMAIN a : a[i] = "Low" THEN "Low"
        ELSE IF \A i \in DOMAIN a : a[i] = "Normal" THEN "Normal"
        ELSE "Unknown"

\* TriageLevel::is_emergency
TriageLevel_is_emergency(self) == self \in {"Critical", "High"}

\* A suggestion that hands the severity name on as the triage level.
suggested_triage_SameName(self) ==
    LET overall == overall_assessment(self)
    IN  CASE overall = "Critical" -> Some("Critical")
          [] overall = "High"     -> Some("High")
          [] overall = "Low"      -> Some("Low")
          [] overall = "Normal"   -> Some("Low")
          [] overall = "Unknown"  -> None

\* PatientVitals::suggested_triage
suggested_triage(self) ==
    LET overall == overall_assessment(self)
    IN  CASE overall = "Critical" -> Some("Critical")
          [] overall = "High"     -> Some("High")
          [] overall = "Low"      -> Some("Medium")
          [] overall = "Normal"   -> Some("Low")
          [] overall = "Unknown"  -> None

\* An emergency test that only counts Critical.
PatientVitals_is_emergency_CriticalOnly(self) ==
    overall_assessment(self) = "Critical"

\* PatientVitals::is_emergency
PatientVitals_is_emergency(self) ==
    overall_assessment(self) \in {"Critical", "High"}

\* ------------------------------------------------------------ errors
\* PatientError::status_code
PatientError_status_code(e) ==
    CASE e.variant = "NotFound"                 -> 404
      [] e.variant = "AlreadyExists"            -> 409
      [] e.variant = "InvalidData"              -> 400
      [] e.variant = "InvalidStatusTransition"  -> 422
      [] e.variant = "HospitalMismatch"         -> 403
      [] e.variant = "AlreadyAssigned"          -> 409
      [] e.variant = "StaffNotAvailable"        -> 409
      [] e.variant = "BedNotAvailable"          -> 409
      [] e.variant = "TriageChangeNotPermitted" -> 403
      [] e.variant = "CriticalConditionDischarge" -> 422
      [] e.variant = "UnpaidBillsDischarge"     -> 402
      [] e.variant = "InvalidVitalSigns"        -> 400
      [] e.variant = "MinorConsentRequired"     -> 422
      [] e.variant = "AllergyConflict"          -> 422
      [] e.variant = "IncompleteHistory"        -> 422
      [] e.variant = "TransferFailed"           -> 422
      [] e.variant = "EmergencyContactRequired" -> 422

\* HospitalError::status_code
HospitalError_status_code(e) ==
    CASE e.variant = "NotFound"                   -> 404
      [] e.variant = "AtCapacity"                 -> 503
      [] e.variant = "NotAcceptingPatients"       -> 503
      [] e.variant = "SpecialtyNotAvailable"      -> 422
      [] e.variant = "BedNotFound"                -> 404
      [] e.variant = "BedOccupied"                -> 409
      [] e.variant = "IncompatibleBedType"        -> 422
      [] e.variant = "EquipmentNotAvailable"      -> 503
      [] e.variant = "NetworkCommunicationFailed" -> 502
      [] e.variant = "StaleCapacityData"          -> 409
      [] e.variant = "InvalidCapacityUpdate"      -> 400
      [] e.variant = "UnderMaintenance"           -> 503
      [] e.variant = "TransferProtocolViolation"  -> 422
      [] e.variant = "LicenseValidationFailed"    -> 403
      [] e.variant = "RegionalRestrictions"       -> 403

\* PatientStatus::display_name (Display writes the same text)
PatientStatus_display_name(self) ==
    CASE self = "Dispatched" -> "Dispatched"
      [] self = "EnRoute"    -> "En Route"
      [] self = "Arrived"    -> "Arrived"
      [] self = "Admitted"   -> "Admitted"
      [] self = "Discharged" -> "Discharged"

\* A text is the sequence of the pieces that format! joins: the literal
\* pieces of the template and the payloads put between them.
\* PatientError's Display, from its #[error] attributes.
PatientError_to_string(e) ==
    CASE e.variant = "NotFound" -> <<"Patient not found: ", e.patient_id>>
      [] e.variant = "AlreadyExists" -> <<"Patient already exists with ID: ", e.national_id>>
      [] e.variant = "InvalidData" ->
            <<"Invalid patient data: ", e.field, " - ", e.reason>>
      [] e.variant = "InvalidStatusTransition" ->
            <<"Cannot update patient status from ", PatientStatus_display_name(e.current),
              " to ", PatientStatus_display_name(e.requested)>>
      [] e.variant = "HospitalMismatch" ->
            <<"Patient is not assigned to this hospital: ", e.hospital_id>>
      [] e.variant = "AlreadyAssigned" ->
            <<"Patient is already assigned to staff member: ", e.staff_id>>
      [] e.variant = "StaffNotAvailable" ->
            <<"Cannot assign patient - staff member not available: ", e.staff_id>>
      [] e.variant = "BedNotAvailable" ->
            <<"Patient bed assignment failed - bed not available: ", e.bed_id>>
      [] e.variant = "TriageChangeNotPermitted" ->
            <<"Triage level change not permitted: ", e.from, " to ", e.to,
              " - requires senior staff approval">>
      [] e.variant = "CriticalConditionDischarge" ->
            <<"Patient is in critical condition - cannot discharge">>
      [] e.variant = "UnpaidBillsDischarge" ->
            <<"Patient has unpaid bills - cannot discharge">>
      [] e.variant = "InvalidVitalSigns" ->
            <<"Patient vital signs are incomplete or invalid">>
      [] e.variant = "MinorConsentRequired" ->
            <<"Patient is a minor - guardian consent required">>
      [] e.variant = "AllergyConflict" ->
            <<"Patient has allergies to prescribed medication: ", e.medication>>
      [] e.variant = "IncompleteHistory" ->
            <<"Patient medical history is incomplete for this procedure">>
      [] e.variant = "TransferFailed" -> <<"Patient transfer failed - ", e.reason>>
      [] e.variant = "EmergencyContactRequired" ->
            <<"Emergency contact information is required for critical patients">>

\* PatientError::error_code
PatientError_error_code(e) ==
    CASE e.variant = "NotFound"                   -> "PATIENT_NOT_FOUND"
      [] e.variant = "AlreadyExists"              -> "PATIENT_ALREADY_EXISTS"
      [] e.variant = "InvalidData"                -> "PATIENT_INVALID_DATA"
      [] e.variant = "InvalidStatusTransition"    -> "PATIENT_INVALID_STATUS_TRANSITION"
      [] e.variant = "HospitalMismatch"           -> "PATIENT_HOSPITAL_MISMATCH"
      [] e.variant = "AlreadyAssigned"            -> "PATIENT_ALREADY_ASSIGNED"
      [] e.variant = "StaffNotAvailable"          -> "STAFF_NOT_AVAILABLE"
      [] e.variant = "BedNotAvailable"            -> "BED_NOT_AVAILABLE"
      [] e.variant = "TriageChangeNotPermitted"   -> "TRIAGE_CHANGE_NOT_PERMITTED"
      [] e.variant = "CriticalConditionDischarge" -> "CRITICAL_CONDITION_DISCHARGE"
      [] e.variant = "UnpaidBillsDischarge"       -> "UNPAID_BILLS_DISCHARGE"
      [] e.variant = "InvalidVitalSigns"          -> "INVALID_VITAL_SIGNS"
      [] e.variant = "MinorConsentRequired"       -> "MINOR_CONSENT_REQUIRED"
      [] e.variant = "AllergyConflict"            -> "ALLERGY_CONFLICT"
      [] e.variant = "IncompleteHistory"          -> "INCOMPLETE_HISTORY"
      [] e.variant = "TransferFailed"             -> "TRANSFER_FAILED"
      [] e.variant = "EmergencyContactRequired"   -> "EMERGENCY_CONTACT_REQUIRED"

\* PatientError::user_message
PatientError_user_message(e) ==
    CASE e.variant = "NotFound" -> <<"Patient record not found">>
      [] e.variant = "InvalidStatusTransition" ->
            <<"Cannot change patient status from ", PatientStatus_display_name(e.current),
              " to ", PatientStatus_display_name(e.requested)>>
      [] e.variant = "StaffNotAvailable" ->
            <<"The selected staff member is not available for assignment">>
      [] e.variant = "BedNotAvailable" -> <<"The selected bed is not available">>
      [] e.variant = "AllergyConflict" -> <<"Patient is allergic to ", e.medication>>
      [] e.variant = "MinorConsentRequired" ->
            <<"Guardian consent is required for patients under 18">>
      [] OTHER -> PatientError_to_string(e)

\* HospitalError's Display, from its #[error] attributes.
HospitalError_to_string(e) ==
    CASE e.variant = "NotFound" -> <<"Hospital not found: ", e.hospital_id>>
      [] e.variant = "AtCapacity" -> <<"Hospital is at full capacity - no beds available">>
      [] e.variant = "NotAcceptingPatients" ->
            <<"Hospital is not accepting patients - status: ", e.status>>
      [] e.variant = "SpecialtyNotAvailable" ->
            <<"Hospital does not have required specialty: ", e.specialty>>
      [] e.variant = "BedNotFound" -> <<"Bed not found: ", e.bed_id>>
      [] e.variant = "BedOccupied" ->
            <<"Bed is already occupied by patient: ", e.patient_id>>
      [] e.variant = "IncompatibleBedType" ->
            <<"Invalid bed type for patient triage level">>
      [] e.variant = "EquipmentNotAvailable" ->
            <<"Equipment not available: ", e.equipment_type>>
      [] e.variant = "NetworkCommunicationFailed" ->
            <<"Hospital network communication failed: ", e.reason>>
      [] e.variant = "StaleCapacityData" ->
            <<"Hospital capacity data is stale - last update: ", e.last_update>>
      [] e.variant = "InvalidCapacityUpdate" ->
            <<"Cannot update hospital capacity - invalid bed count: ", ToString(e.requested)>>
      [] e.variant = "UnderMaintenance" ->
            <<"Hospital is under maintenance - emergency only">>
      [] e.variant = "TransferProtocolViolation" ->
            <<"Hospital transfer protocol violation: ", e.reason>>
      [] e.variant = "LicenseValidationFailed" -> <<"Hospital license validation failed">>
      [] e.variant = "RegionalRestrictions" -> <<"Hospital regional restrictions apply">>

\* HospitalError::error_code
HospitalError_error_code(e) ==
    CASE e.variant = "NotFound"                   -> "HOSPITAL_NOT_FOUND"
      [] e.variant = "AtCapacity"                 -> "HOSPITAL_AT_CAPACITY"
      [] e.variant = "NotAcceptingPatients"       -> "HOSPITAL_NOT_ACCEPTING_PATIENTS"
      [] e.variant = "SpecialtyNotAvailable"      -> "SPECIALTY_NOT_AVAILABLE"
      [] e.variant = "BedNotFound"                -> "BED_NOT_FOUND"
      [] e.variant = "BedOccupied"                -> "BED_OCCUPIED"
      [] e.variant = "IncompatibleBedType"        -> "INCOMPATIBLE_BED_TYPE"
      [] e.variant = "EquipmentNotAvailable"      -> "EQUIPMENT_NOT_AVAILABLE"
      [] e.variant = "NetworkCommunicationFailed" -> "NETWORK_COMMUNICATION_FAILED"
      [] e.variant = "StaleCapacityData"          -> "STALE_CAPACITY_DATA"
      [] e.variant = "InvalidCapacityUpdate"      -> "INVALID_CAPACITY_UPDATE"
      [] e.variant = "UnderMaintenance"           -> "HOSPITAL_UNDER_MAINTENANCE"
      [] e.variant = "TransferProtocolViolation"  -> "TRANSFER_PROTOCOL_VIOLATION"
      [] e.variant = "LicenseValidationFailed"    -> "LICENSE_VALIDATION_FAILED"
      [] e.variant = "RegionalRestrictions"       -> "REGIONAL_RESTRICTIONS"

\* HospitalError::user_message
HospitalError_user_message(e) ==
    CASE e.variant = "NotFound" -> <<"Hospital not found">>
      [] e.variant = "AtCapacity" ->
            <<"Hospital is at full capacity. Please try another hospital">>
      [] e.variant = "NotAcceptingPatients" ->
            <<"Hospital is not currently accepting patients (", e.status, ")">>
      [] e.variant = "SpecialtyNotAvailable" ->
            <<"This hospital does not have ", e.specialty, " services">>
      [] e.variant = "BedOccupied" -> <<"The selected bed is already occupied">>
      [] e.variant = "UnderMaintenance" ->
            <<"Hospital is under maintenance - emergency cases only">>
      [] e.variant = "EquipmentNotAvailable" ->
            <<e.equipment_type, " is not currently available">>
      [] OTHER -> HospitalError_to_string(e)

\* AuthError's Display, from its #[error] attributes.
AuthError_to_string(e) ==
    CASE e.variant = "InvalidCredentials" -> <<"Invalid credentials provided">>
      [] e.variant = "AccountDisabled" -> <<"User account is disabled: ", e.username>>
      [] e.variant = "UserNotFound" -> <<"User not found: ", e.username>>
      [] e.variant = "InvalidToken" -> <<"Invalid or expired token">>
      [] e.variant = "TokenExpired" -> <<"Token has expired">>
      [] e.variant = "MissingToken" -> <<"Missing authentication token">>
      [] e.variant = "InsufficientPermissions" ->
            <<"Insufficient permissions for this operation">>
      [] e.variant = "HospitalAccessDenied" ->
            <<"User is not assigned to hospital: ", e.hospital_id>>
      [] e.variant = "WeakPassword" ->
            <<"Password does not meet security requirements: ", e.reason>>
      [] e.variant = "AccountLocked" ->
            <<"Account is locked due to too many failed attempts">>
      [] e.variant = "SessionTerminated" -> <<"Session has been terminated">>
      [] e.variant = "MfaRequired" -> <<"Multi-factor authentication required">>
      [] e.variant = "InvalidMfaCode" -> <<"Invalid multi-factor authentication code">>
      [] e.variant = "PasswordResetRequired" -> <<"Password reset required">>

\* AuthError::status_code
AuthError_status_code(e) ==
    CASE e.variant = "InvalidCredentials"      -> 401
      [] e.variant = "AccountDisabled"         -> 403
      [] e.variant = "UserNotFound"            -> 401
      [] e.variant = "InvalidToken"            -> 401
      [] e.variant = "TokenExpired"            -> 401
      [] e.variant = "MissingToken"            -> 401
      [] e.variant = "InsufficientPermissions" -> 403
      [] e.variant = "HospitalAccessDenied"    -> 403
      [] e.variant = "WeakPassword"            -> 400
      [] e.variant = "AccountLocked"           -> 423
      [] e.variant = "SessionTerminated"       -> 401
      [] e.variant = "MfaRequired"             -> 428
      [] e.variant = "InvalidMfaCode"          -> 400
      [] e.variant = "PasswordResetRequired"   -> 428

\* AuthError::error_code
AuthError_error_code(e) ==
    CASE e.variant = "InvalidCredentials"      -> "AUTH_INVALID_CREDENTIALS"
      [] e.variant = "AccountDisabled"         -> "AUTH_ACCOUNT_DISABLED"
      [] e.variant = "UserNotFound"            -> "AUTH_INVALID_CREDENTIALS"
      [] e.variant = "InvalidToken"            -> "AUTH_INVALID_TOKEN"
      [] e.variant = "TokenExpired"            -> "AUTH_TOKEN_EXPIRED"
      [] e.variant = "MissingToken"            -> "AUTH_MISSING_TOKEN"
      [] e.variant = "InsufficientPermissions" -> "AUTH_INSUFFICIENT_PERMISSIONS"
      [] e.variant = "HospitalAccessDenied"    -> "AUTH_HOSPITAL_ACCESS_DENIED"
      [] e.variant = "WeakPassword"            -> "AUTH_WEAK_PASSWORD"
      [] e.variant = "AccountLocked"           -> "AUTH_ACCOUNT_LOCKED"
      [] e.variant = "SessionTerminated"       -> "AUTH_SESSION_TERMINATED"
      [] e.variant = "MfaRequired"             -> "AUTH_MFA_REQUIRED"
      [] e.variant = "InvalidMfaCode"          -> "AUTH_INVALID_MFA_CODE"
      [] e.variant = "PasswordResetRequired"   -> "AUTH_PASSWORD_RESET_REQUIRED"

\* AuthError::user_message
AuthError_user_message(e) ==
    CASE e.variant \in {"InvalidCredentials", "UserNotFound"} ->
            <<"Invalid username or password">>
      [] e.variant = "AccountDisabled" ->
            <<"Your account has been disabled. Please contact your administrator">>
      [] e.variant = "TokenExpired" -> <<"Your session has expired. Please log in again">>
      [] e.variant = "AccountLocked" ->
            <<"Account is temporarily locked due to multiple failed login attempts">>
      [] e.variant = "WeakPassword" -> <<"Password requirements not met: ", e.reason>>
      [] e.variant = "MfaRequired" ->
            <<"Multi-factor authentication is required to continue">>
      [] OTHER -> AuthError_to_string(e)

\* Mutant of AppError::status_code: a wrapped PatientError is answered with
\* 400 instead of being handed to the inner error.
AppError_status_code_Flat(e) ==
    CASE e.variant = "Auth"     -> AuthError_status_code(e.inner)
      [] e.variant = "Patient"  -> 400
      [] e.variant = "Hospital" -> HospitalError_status_code(e.inner)

\* From<AuthError>, From<PatientError>, From<HospitalError> for AppError (the
\* #[from] attributes): the variant that holds the domain error.
AppError_from(e) == [ variant |-> e.type, inner |-> e ]

\* AppError::status_code on the wrapped domain errors: AppError::Auth(e),
\* AppError::Patient(e) and AppError::Hospital(e) hand the call to the inner
\* error.
AppError_status_code(e) ==
    CASE e.variant = "Auth"     -> AuthError_status_code(e.inner)
      [] e.variant = "Patient"  -> PatientError_status_code(e.inner)
      [] e.variant = "Hospital" -> HospitalError_status_code(e.inner)

\* AppError::error_code on the wrapped domain errors.
AppError_error_code(e) ==
    CASE e.variant = "Auth"     -> AuthError_error_code(e.inner)
      [] e.variant = "Patient"  -> PatientError_error_code(e.inner)
      [] e.variant = "Hospital" -> HospitalError_error_code(e.inner)

\* AppError's Display on the wrapped domain errors, from its #[error]
\* attributes: a prefix, then the Display of the inner error.
AppError_to_string(e) ==
    CASE e.variant = "Auth"     -> <<"Authentication error: ">> \o AuthError_to_string(e.inner)
      [] e.variant = "Patient"  ->
            <<"Patient management error: ">> \o PatientError_to_string(e.inner)
      [] e.variant = "Hospital" ->
            <<"Hospital management error: ">> \o HospitalError_to_string(e.inner)

\* A user message without the arms for the wrapped errors: they fall to the
\* last arm, self.to_string().
AppError_user_message_Display(e) == AppError_to_string(e)

\* AppError::user_message on the wrapped domain errors.
AppError_user_message(e) ==
    CASE e.variant = "Auth"     -> AuthError_user_message(e.inner)
      [] e.variant = "Patient"  -> PatientError_user_message(e.inner)
      [] e.variant = "Hospital" -> HospitalError_user_message(e.inner)

\* ApiErrorResponse::from_app_error: the body of the JSON error response.
ApiErrorResponse_from_app_error(error, t) ==
    [ error      |-> AppError_to_string(error),
      error_code |-> AppError_error_code(error),
      message    |-> AppError_user_message(error),
      details    |-> None,
      timestamp  |-> t ]

\* The errors handed to status_code: every variant of PatientError and of
\* HospitalError, with its payload drawn from small sets.
Ids == {"id-1", "id-2"}
Texts == {"a", "b"}

PatientErrors ==
    {[type |-> "Patient", variant |-> "NotFound", patient_id |-> i] : i \in Ids}
    \cup {[type |-> "Patient", variant |-> "AlreadyExists", national_id |-> x] : x \in Texts}
    \cup {[type |-> "Patient", variant |-> "InvalidData", field |-> x, reason |-> y] :
              x \in Texts, y \in Texts}
    \cup {[type |-> "Patient", variant |-> "InvalidStatusTransition",
           current |-> c, requested |-> r] : c \in PatientStatuses, r \in PatientStatuses}
    \cup {[type |-> "Patient", variant |-> "HospitalMismatch", hospital_id |-> i] : i \in Ids}
    \cup {[type |-> "Patient", variant |-> "AlreadyAssigned", staff_id |-> i] : i \in Ids}
    \cup {[type |-> "Patient", variant |-> "StaffNotAvailable", staff_id |-> i] : i \in Ids}
    \cup {[type |-> "Patient", variant |-> "BedNotAvailable", bed_id |-> i] : i \in Ids}
    \cup {[type |-> "Patient", variant |-> "TriageChangeNotPermitted", from |-> f, to |-> t] :
              f \in TriageLevels, t \in TriageLevels}
    \cup {[type |-> "Patient", variant |-> "AllergyConflict", medication |-> x] : x \in Texts}
    \cup {[type |-> "Patient", variant |-> "TransferFailed", reason |-> x] : x \in Texts}
    \cup {[type |-> "Patient", variant |-> v] :
              v \in {"CriticalConditionDischarge", "UnpaidBillsDischarge",
                     "InvalidVitalSigns", "MinorConsentRequired",
                     "IncompleteHistory", "EmergencyContactRequired"}}

AuthErrors ==
    {[type |-> "Auth", variant |-> "AccountDisabled", username |-> x] : x \in Texts}
    \cup {[type |-> "Auth", variant |-> "UserNotFound", username |-> x] : x \in Texts}
    \cup {[type |-> "Auth", variant |-> "HospitalAccessDenied", hospital_id |-> i] : i \in Ids}
    \cup {[type |-> "Auth", variant |-> "WeakPassword", reason |-> x] : x \in Texts}
    \cup {[type |-> "Auth", variant |-> v] :
              v \in {"InvalidCredentials", "InvalidToken", "TokenExpired", "MissingToken",
                     "InsufficientPermissions", "AccountLocked", "SessionTerminated",
                     "MfaRequired", "InvalidMfaCode", "PasswordResetRequired"}}

HospitalErrors ==
    {[type |-> "Hospital", variant |-> "NotFound", hospital_id |-> i] : i \in Ids}
    \cup {[type |-> "Hospital", variant |-> "NotAcceptingPatients", status |-> x] : x \in Texts}
    \cup {[type |-> "Hospital", variant |-> "SpecialtyNotAvailable", specialty |-> x] : x \in Texts}
    \cup {[type |-> "Hospital", variant |-> "BedNotFound", bed_id |-> i] : i \in Ids}
    \cup {[type |-> "Hospital", variant |-> "BedOccupied", patient_id |-> i] : i \in Ids}
    \cup {[type |-> "Hospital", variant |-> "EquipmentNotAvailable", equipment_type |-> x] :
              x \in Texts}
    \cup {[type |-> "Hospital", variant |-> "NetworkCommunicationFailed", reason |-> x] :
              x \in Texts}
    \cup {[type |-> "Hospital", variant |-> "StaleCapacityData", last_update |-> x] : x \in Texts}
    \cup {[type |-> "Hospital", variant |-> "InvalidCapacityUpdate", requested |-> n] :
              n \in {-1, 0, 1}}
    \cup {[type |-> "Hospital", variant |-> "TransferProtocolViolation", reason |-> x] :
              x \in Texts}
    \cup {[type |-> "Hospital", variant |-> v] :
              v \in {"AtCapacity", "IncompatibleBedType", "UnderMaintenance",
                     "LicenseValidationFailed", "RegionalRestrictions"}}

\* ------------------------------------------------------------ state
\* The values a specification gives to the parts of the state it does not use.
NoError == [type |-> "None"]
NoCall == [op |-> "none"]
NoRequests == [p \in {} |-> "idle"]
NoBeds == {}
NoDatabase == [config |-> "none"]
NoList == [hospitals |-> << >>, total_count |-> 0]
NoLogin == [username |-> << >>, password |-> << >>]

\* ============================================================ Spec
\* The patient lifecycle: a patient made by Patient::new, then any sequence of
\* Patient::update_status calls with any requested status.
Init ==
    /\ \E tl \in TriageLevels : patient = Patient_new("PAT-001", Some("784-1990-1234567-1"),
                                                      "Ahmed", "Al-Rashid", tl, 0)
    /\ hospital = Hospital_new(0, 0)
    /\ staff = MedicalStaff_new("Junior", << >>, 0)
    /\ vitals = PatientVitals_new
    /\ err = NoError
    /\ now = 0
    /\ visited = <<"Dispatched">>
    /\ db = NoDatabase
    /\ list = NoList
    /\ request = NoLogin
    /\ ret = NoCall
    /\ pc = NoRequests
    /\ beds = NoBeds

\* patient.update_status(new_status); the call returns ().
UpdateStatus ==
    \E new_status \in PatientStatuses :
        /\ now < MaxClock
        /\ now' = now + 1
        /\ patient' = update_status(patient, new_status, now')
        /\ ret' = [ op        |-> "update_status",
                    current   |-> patient.status,
                    requested |-> new_status,
                    value     |-> Unit ]
        /\ visited' = IF update_status_applies(patient, new_status)
                      THEN Append(visited, new_status)
                      ELSE visited
        /\ UNCHANGED <<hospital, staff, vitals, err, db, list, request, beds, pc>>

Next == UpdateStatus

Spec == Init /\ [][Next]_vars

\* ============================================================ SpecHospital
\* The bed inventory: a hospital made by Hospital::new with any total_beds,
\* then any sequence of update_available_beds calls and capacity_status
\* queries.
TotalBedsInputs == (-NegBeds .. MaxBeds) \cup {ScenarioBeds}

\* Arguments of update_available_beds: below zero, in range, above total_beds.
AvailableBedsInputs == (-NegBeds .. MaxBeds + 1) \cup {25, 30, 31, 50, 75, 150}

InitHospital ==
    /\ \E total_beds \in TotalBedsInputs : hospital = Hospital_new(total_beds, 0)
    /\ \E tl \in {"Critical"} : patient = Patient_new("PAT-001", Some("784-1990-1234567-1"),
                                                      "Ahmed", "Al-Rashid", tl, 0)
    /\ staff = MedicalStaff_new("Junior", << >>, 0)
    /\ vitals = PatientVitals_new
    /\ err = NoError
    /\ now = 0
    /\ visited = <<"Dispatched">>
    /\ db = NoDatabase
    /\ list = NoList
    /\ request = NoLogin
    /\ ret = NoCall
    /\ pc = NoRequests
    /\ beds = NoBeds

\* hospital.update_available_beds(available_beds)
UpdateAvailableBeds ==
    \E available_beds \in AvailableBedsInputs :
        /\ now < MaxClock
        /\ now' = now + 1
        /\ hospital' = update_available_beds(hospital, available_beds, now')
        /\ ret' = [ op |-> "update_available_beds", available_beds |-> available_beds ]
        /\ UNCHANGED <<patient, staff, vitals, err, db, list, request, visited, beds, pc>>

\* hospital.capacity_status()
CapacityStatus ==
    /\ ret' = [ op |-> "capacity_status", value |-> capacity_status(hospital) ]
    /\ UNCHANGED <<patient, hospital, staff, vitals, err, db, list, request, visited,
                   beds, now, pc>>

\* hospital.status = status: the field is public and has no setter.
SetStatus ==
    \E status \in HospitalStatuses :
        /\ hospital' = [hospital EXCEPT !.status = status]
        /\ ret' = [ op |-> "set_status", status |-> status ]
        /\ UNCHANGED <<patient, staff, vitals, err, db, list, request, visited, beds, now, pc>>

\* HospitalResponse::from_hospital(&hospital).can_accept_patients()
CanAcceptPatients ==
    /\ ret' = [ op |-> "can_accept_patients",
                value |-> can_accept_patients(HospitalResponse_from_hospital(hospital)) ]
    /\ UNCHANGED <<patient, hospital, staff, vitals, err, db, list, request, visited,
                   beds, now, pc>>

NextHospital ==
    \/ UpdateAvailableBeds
    \/ CapacityStatus
    \/ SetStatus
    \/ CanAcceptPatients

SpecHospital == InitHospital /\ [][NextHospital]_vars

\* ============================================================ SpecVitals
\* The severity model: a vitals record with any subset of the readings
\* present, each around the thresholds of its assessment, then the call of
\* overall_assessment.
SystolicInputs == {85, 89, 90, 120, 139, 140, 150, 179, 180, 185, 190}
DiastolicInputs == {50, 55, 59, 60, 80, 89, 90, 95, 119, 120, 125}
HeartRateInputs == {45, 49, 50, 59, 60, 75, 100, 101, 120, 121}
OxygenInputs == {85, 89, 90, 94, 95, 98}
TemperatureInputs == {349, 350, 359, 360, 370, 385, 386, 400, 401}

\* Option<T> over a set of readings.
Optional(S) == {None} \cup {Some(x) : x \in S}

InitVitals ==
    /\ \E sys \in Optional(SystolicInputs), dia \in Optional(DiastolicInputs),
          hr \in Optional(HeartRateInputs), o2 \in Optional(OxygenInputs),
          temp \in Optional(TemperatureInputs) :
            vitals = [ PatientVitals_new EXCEPT !.systolic_bp = sys,
                                                !.diastolic_bp = dia,
                                                !.heart_rate = hr,
                                                !.oxygen_saturation = o2,
                                                !.temperature = temp ]
    /\ patient = Patient_new("PAT-001", Some("784-1990-1234567-1"),
                             "Ahmed", "Al-Rashid", "Critical", 0)
    /\ hospital = Hospital_new(0, 0)
    /\ staff = MedicalStaff_new("Junior", << >>, 0)
    /\ err = NoError
    /\ now = 0
    /\ visited = <<"Dispatched">>
    /\ db = NoDatabase
    /\ list = NoList
    /\ request = NoLogin
    /\ ret = NoCall
    /\ pc = NoRequests
    /\ beds = NoBeds

\* vitals.overall_assessment()
OverallAssessment ==
    /\ ret' = [ op |-> "overall_assessment", value |-> overall_assessment(vitals) ]
    /\ UNCHANGED <<patient, hospital, staff, vitals, err, db, list, request, visited,
                   beds, now, pc>>

\* vitals.bp_assessment()
BpAssessment ==
    /\ ret' = [ op |-> "bp_assessment", value |-> bp_assessment(vitals) ]
    /\ UNCHANGED <<patient, hospital, staff, vitals, err, db, list, request, visited,
                   beds, now, pc>>

\* vitals.suggested_triage()
SuggestedTriage ==
    /\ ret' = [ op |-> "suggested_triage", value |-> suggested_triage(vitals) ]
    /\ UNCHANGED <<patient, hospital, staff, vitals, err, db, list, request, visited,
                   beds, now, pc>>

\* vitals.is_emergency()
IsEmergency ==
    /\ ret' = [ op |-> "is_emergency", value |-> PatientVitals_is_emergency(vitals) ]
    /\ UNCHANGED <<patient, hospital, staff, vitals, err, db, list, request, visited,
                   beds, now, pc>>

NextVitals ==
    \/ OverallAssessment
    \/ BpAssessment
    \/ SuggestedTriage
    \/ IsEmergency

SpecVitals == InitVitals /\ [][NextVitals]_vars

\* ============================================================ SpecErrors
\* The error taxonomy: any PatientError or HospitalError, wrapped in AppError,
\* then the call of status_code.
InitErrors ==
    /\ err \in PatientErrors \cup HospitalErrors \cup AuthErrors
    /\ patient = Patient_new("PAT-001", Some("784-1990-1234567-1"),
                             "Ahmed", "Al-Rashid", "Critical", 0)
    /\ hospital = Hospital_new(0, 0)
    /\ staff = MedicalStaff_new("Junior", << >>, 0)
    /\ vitals = PatientVitals_new
    /\ now = 0
    /\ visited = <<"Dispatched">>
    /\ db = NoDatabase
    /\ list = NoList
    /\ request = NoLogin
    /\ ret = NoCall
    /\ pc = NoRequests
    /\ beds = NoBeds

\* AppError::from(err).status_code()
StatusCode ==
    /\ ret' = [ op |-> "status_code", value |-> AppError_status_code(AppError_from(err)) ]
    /\ UNCHANGED <<patient, hospital, staff, vitals, err, db, list, request, visited,
                   beds, now, pc>>

\* AppError::from(err).error_code()
ErrorCode ==
    /\ ret' = [ op |-> "error_code", value |-> AppError_error_code(AppError_from(err)) ]
    /\ UNCHANGED <<patient, hospital, staff, vitals, err, db, list, request, visited,
                   beds, now, pc>>

\* AppError::from(err).user_message()
UserMessage ==
    /\ ret' = [ op |-> "user_message", value |-> AppError_user_message(AppError_from(err)) ]
    /\ UNCHANGED <<patient, hospital, staff, vitals, err, db, list, request, visited,
                   beds, now, pc>>

\* ApiErrorResponse::from_app_error(&AppError::from(err))
FromAppError ==
    /\ now < MaxClock
    /\ now' = now + 1
    /\ ret' = [ op |-> "from_app_error",
                value |-> ApiErrorResponse_from_app_error(AppError_from(err), now') ]
    /\ UNCHANGED <<patient, hospital, staff, vitals, err, db, list, request, visited,
                   beds, pc>>

NextErrors ==
    \/ StatusCode
    \/ ErrorCode
    \/ UserMessage
    \/ FromAppError

SpecErrors == InitErrors /\ [][NextErrors]_vars

\* ============================================================ SpecRace
\* Two assignment requests against one hospital.  Each request is the pair of
\* calls the entity offers: it asks has_available_beds and, when that holds,
\* writes the decremented count with update_available_beds.  The code holds
\* no lock and no transaction around the pair, so the steps of the two
\* requests interleave freely; each single call is atomic.
Requests == {"r1", "r2"}

InitRace ==
    /\ \E total_beds \in 1 .. RaceBeds : \E available_beds \in 0 .. total_beds :
          /\ hospital = update_available_beds(Hospital_new(total_beds, 0), available_beds, 0)
          /\ ret = [ op |-> "assign_bed", available_beds |-> available_beds ]
    /\ patient = Patient_new("PAT-001", Some("784-1990-1234567-1"),
                             "Ahmed", "Al-Rashid", "Critical", 0)
    /\ staff = MedicalStaff_new("Junior", << >>, 0)
    /\ vitals = PatientVitals_new
    /\ err = NoError
    /\ now = 0
    /\ visited = <<"Dispatched">>
    /\ db = NoDatabase
    /\ list = NoList
    /\ request = NoLogin
    /\ pc = [p \in Requests |-> "check"]
    /\ beds = NoBeds

\* if !hospital.has_available_beds() { return Err(HospitalError::AtCapacity) }
CheckBeds(p) ==
    /\ pc[p] = "check"
    /\ pc' = [pc EXCEPT ![p] = IF has_available_beds(hospital) THEN "write" ELSE "at_capacity"]
    /\ UNCHANGED <<patient, hospital, staff, vitals, err, db, list, request, visited,
                   beds, now, ret>>

\* hospital.update_available_beds(hospital.available_beds - 1); Ok(bed)
WriteBeds(p) ==
    /\ pc[p] = "write"
    /\ now' = now + 1
    /\ hospital' = update_available_beds(hospital, hospital.available_beds - 1, now')
    /\ pc' = [pc EXCEPT ![p] = "granted"]
    /\ UNCHANGED <<patient, staff, vitals, err, db, list, request, visited, beds, ret>>

NextRace == \E p \in Requests : CheckBeds(p) \/ WriteBeds(p)

SpecRace == InitRace /\ [][NextRace]_vars

\* ============================================================ SpecAssign
\* One assignment of a bed and a staff member to a patient, made of the
\* calls the entities offer, in the order of the design: verify, decrement
\* available_beds, set the staff member Busy, link the bed, link the staff
\* member.  Each call writes its entity at once; the caller may abort, or a
\* step may fail, between any two calls, and the code has no rollback.
InitAssign ==
    /\ \E total_beds \in 0 .. AssignBeds : \E available_beds \in 0 .. total_beds :
       \E status \in AvailabilityStatuses :
          /\ hospital = update_available_beds(Hospital_new(total_beds, 0), available_beds, 0)
          /\ staff = update_availability(MedicalStaff_new("Senior", << >>, 0), status, 0)
          /\ ret = [ op |-> "assign", hospital |-> hospital, staff |-> staff ]
    /\ \E tl \in TriageLevels : patient = Patient_new("PAT-001", Some("784-1990-1234567-1"),
                                                      "Ahmed", "Al-Rashid", tl, 0)
    /\ vitals = PatientVitals_new
    /\ err = NoError
    /\ now = 0
    /\ visited = <<"Dispatched">>
    /\ db = NoDatabase
    /\ list = NoList
    /\ request = NoLogin
    /\ pc = [p \in {"txn"} |-> "verify"]
    /\ beds = NoBeds

\* hospital.has_available_beds() && staff.can_take_assignment()
VerifyAssign ==
    /\ pc["txn"] = "verify"
    /\ pc' = [pc EXCEPT !["txn"] =
                 IF has_available_beds(hospital)
                    /\ can_take_assignment(staff.availability_status)
                 THEN "decrement" ELSE "failed"]
    /\ UNCHANGED <<patient, hospital, staff, vitals, err, db, list, request, visited,
                   beds, now, ret>>

\* hospital.update_available_beds(hospital.available_beds - 1)
DecrementBeds ==
    /\ pc["txn"] = "decrement"
    /\ now' = now + 1
    /\ hospital' = update_available_beds(hospital, hospital.available_beds - 1, now')
    /\ pc' = [pc EXCEPT !["txn"] = "flip"]
    /\ UNCHANGED <<patient, staff, vitals, err, db, list, request, visited, beds, ret>>

\* staff.update_availability(AvailabilityStatus::Busy)
FlipStaff ==
    /\ pc["txn"] = "flip"
    /\ now' = now + 1
    /\ staff' = update_availability(staff, "Busy", now')
    /\ pc' = [pc EXCEPT !["txn"] = "link_bed"]
    /\ UNCHANGED <<patient, hospital, vitals, err, db, list, request, visited, beds, ret>>

\* patient.assign_bed(bed_id)
LinkBed ==
    \E bed_id \in Ids :
        /\ pc["txn"] = "link_bed"
        /\ now' = now + 1
        /\ patient' = assign_bed(patient, bed_id, now')
        /\ pc' = [pc EXCEPT !["txn"] = "link_staff"]
        /\ UNCHANGED <<hospital, staff, vitals, err, db, list, request, visited, beds, ret>>

\* patient.assign_staff(staff_id)
LinkStaff ==
    \E staff_id \in Ids :
        /\ pc["txn"] = "link_staff"
        /\ now' = now + 1
        /\ patient' = assign_staff(patient, staff_id, now')
        /\ pc' = [pc EXCEPT !["txn"] = "done"]
        /\ UNCHANGED <<hospital, staff, vitals, err, db, list, request, visited, beds, ret>>

\* The request is cancelled, or its next step fails, after some of the calls.
AbortAssign ==
    /\ pc["txn"] \in {"decrement", "flip", "link_bed", "link_staff"}
    /\ pc' = [pc EXCEPT !["txn"] = "aborted"]
    /\ UNCHANGED <<patient, hospital, staff, vitals, err, db, list, request, visited,
                   beds, now, ret>>

NextAssign ==
    \/ VerifyAssign
    \/ DecrementBeds
    \/ FlipStaff
    \/ LinkBed
    \/ LinkStaff
    \/ AbortAssign

SpecAssign == InitAssign /\ [][NextAssign]_vars

\* ============================================================ SpecStaff
\* One staff member: created with any seniority string and any initial
\* certifications vector, then any calls of its methods.
SeniorityInputs == {"Director", "Consultant", "Senior", "Junior", "Resident"}
Certifications == {"ACLS", "PALS"}
CertificationVectors ==
    {<< >>} \cup {<<c>> : c \in Certifications}
            \cup {<<c, d>> : c \in Certifications, d \in Certifications}

InitStaff ==
    /\ \E seniority_level \in SeniorityInputs,
          certifications \in CertificationVectors :
            staff = MedicalStaff_new(seniority_level, certifications, 0)
    /\ patient = Patient_new("PAT-001", Some("784-1990-1234567-1"),
                             "Ahmed", "Al-Rashid", "Critical", 0)
    /\ hospital = Hospital_new(0, 0)
    /\ vitals = PatientVitals_new
    /\ err = NoError
    /\ now = 0
    /\ visited = <<"Dispatched">>
    /\ db = NoDatabase
    /\ list = NoList
    /\ request = NoLogin
    /\ ret = NoCall
    /\ pc = NoRequests
    /\ beds = NoBeds

\* staff.update_availability(status)
UpdateAvailability ==
    \E status \in AvailabilityStatuses :
        /\ now < MaxCalls
        /\ now' = now + 1
        /\ staff' = update_availability(staff, status, now')
        /\ ret' = [ op |-> "update_availability", status |-> status ]
        /\ UNCHANGED <<patient, hospital, vitals, err, db, list, request, visited, beds, pc>>

\* staff.add_certification(certification)
AddCertification ==
    \E certification \in Certifications :
        /\ now < MaxCalls
        /\ now' = now + 1
        /\ staff' = add_certification(staff, certification, now')
        /\ ret' = [ op |-> "add_certification", certification |-> certification ]
        /\ UNCHANGED <<patient, hospital, vitals, err, db, list, request, visited, beds, pc>>

\* staff.assignment_priority()
AssignmentPriority ==
    /\ ret' = [ op |-> "assignment_priority",
                value |-> MedicalStaff_assignment_priority(staff) ]
    /\ UNCHANGED <<patient, hospital, staff, vitals, err, db, list, request, visited,
                   beds, now, pc>>

\* staff.can_take_assignment()
CanTakeAssignment ==
    /\ ret' = [ op |-> "can_take_assignment",
                value |-> MedicalStaff_can_take_assignment(staff) ]
    /\ UNCHANGED <<patient, hospital, staff, vitals, err, db, list, request, visited,
                   beds, now, pc>>

\* staff.is_working()
IsWorking ==
    /\ ret' = [ op |-> "is_working",
                value |-> MedicalStaff_is_working(staff) ]
    /\ UNCHANGED <<patient, hospital, staff, vitals, err, db, list, request, visited,
                   beds, now, pc>>

NextStaff ==
    \/ UpdateAvailability
    \/ AddCertification
    \/ AssignmentPriority
    \/ CanTakeAssignment
    \/ IsWorking

SpecStaff == InitStaff /\ [][NextStaff]_vars

\* ============================================================ SpecBeds
\* A patient of any triage level in front of any set of bed types with an
\* available bed: the suitability of each type, and the selection.
InitBeds ==
    /\ \E triage_level \in TriageLevels : patient = Patient_new("PAT-001", Some("784-1990-1234567-1"),
                                                                "Ahmed", "Al-Rashid", triage_level, 0)
    /\ beds \in SUBSET BedTypes
    /\ hospital = Hospital_new(0, 0)
    /\ staff = MedicalStaff_new("Junior", << >>, 0)
    /\ vitals = PatientVitals_new
    /\ err = NoError
    /\ now = 0
    /\ visited = <<"Dispatched">>
    /\ db = NoDatabase
    /\ list = NoList
    /\ request = NoLogin
    /\ ret = NoCall
    /\ pc = NoRequests

\* bed_type.is_suitable_for_triage(patient.triage_level)
IsSuitableForTriage ==
    \E bed_type \in BedTypes :
        /\ ret' = [ op |-> "is_suitable_for_triage", bed_type |-> bed_type,
                    value |-> is_suitable_for_triage(bed_type, patient.triage_level) ]
        /\ UNCHANGED <<patient, hospital, staff, vitals, err, db, list, request, visited,
                       beds, now, pc>>

\* The selection of a bed for the patient.
SelectBed ==
    /\ ret' = [ op |-> "select_bed",
                value |-> select_bed(beds, patient.triage_level) ]
    /\ UNCHANGED <<patient, hospital, staff, vitals, err, db, list, request, visited,
                   beds, now, pc>>

NextBeds == IsSuitableForTriage \/ SelectBed

SpecBeds == InitBeds /\ [][NextBeds]_vars

\* ============================================================ SpecPatient
\* One patient and one vitals record: any calls of the patient's mutators
\* (MaxCalls of them, then status updates only) and of the vitals' queries.
Allergens == {"Penicillin", "Nuts"}
VitalsRecords ==
    { PatientVitals_new,
      [ PatientVitals_new EXCEPT !.systolic_bp = Some(190),
                                 !.diastolic_bp = Some(125),
                                 !.heart_rate = Some(75),
                                 !.oxygen_saturation = Some(98),
                                 !.temperature = Some(370) ] }

InitPatient ==
    /\ \E triage_level \in TriageLevels : patient = Patient_new("PAT-001", Some("784-1990-1234567-1"),
                                                                "Ahmed", "Al-Rashid", triage_level, 0)
    /\ vitals \in VitalsRecords
    /\ hospital = Hospital_new(0, 0)
    /\ staff = MedicalStaff_new("Junior", << >>, 0)
    /\ err = NoError
    /\ now = 0
    /\ visited = <<"Dispatched">>
    /\ db = NoDatabase
    /\ list = NoList
    /\ request = NoLogin
    /\ ret = NoCall
    /\ pc = NoRequests
    /\ beds = NoBeds

\* patient.assign_staff(staff_id)
AssignStaff ==
    \E staff_id \in Ids :
        /\ now < MaxCalls
        /\ now' = now + 1
        /\ patient' = assign_staff(patient, staff_id, now')
        /\ ret' = [ op |-> "assign_staff", id |-> staff_id ]
        /\ UNCHANGED <<hospital, staff, vitals, err, db, list, request, visited, beds, pc>>

\* patient.assign_ambulance(ambulance_id)
AssignAmbulance ==
    \E ambulance_id \in Ids :
        /\ now < MaxCalls
        /\ now' = now + 1
        /\ patient' = assign_ambulance(patient, ambulance_id, now')
        /\ ret' = [ op |-> "assign_ambulance", id |-> ambulance_id ]
        /\ UNCHANGED <<hospital, staff, vitals, err, db, list, request, visited, beds, pc>>

\* patient.assign_bed(bed_id)
AssignBed ==
    \E bed_id \in Ids :
        /\ now < MaxCalls
        /\ now' = now + 1
        /\ patient' = assign_bed(patient, bed_id, now')
        /\ ret' = [ op |-> "assign_bed", id |-> bed_id ]
        /\ UNCHANGED <<hospital, staff, vitals, err, db, list, request, visited, beds, pc>>

\* patient.add_allergy(allergy)
AddAllergy ==
    \E allergy \in Allergens :
        /\ now < MaxCalls
        /\ now' = now + 1
        /\ patient' = add_allergy(patient, allergy, now')
        /\ ret' = [ op |-> "add_allergy", allergy |-> allergy ]
        /\ UNCHANGED <<hospital, staff, vitals, err, db, list, request, visited, beds, pc>>

NextPatient ==
    \/ UpdateStatus
    \/ AssignStaff
    \/ AssignAmbulance
    \/ AssignBed
    \/ AddAllergy
    \/ OverallAssessment
    \/ SuggestedTriage

SpecPatient == InitPatient /\ [][NextPatient]_vars

\* ------------------------------------------------------------------------
\* config::DatabaseConfig: create_pool and its retry loop, one step per
\* await point.  A url is the sequence <<scheme prefix, remainder>>; the
\* empty url is << >>.
max_retries == 5
retry_delay_seconds == 2

starts_with(url, prefix) == Len(url) > 0 /\ url[1] = prefix

\* DatabaseConfig::validate: the message of the first failed rule, or Ok.
DatabaseConfig_validate(self) ==
    IF self.url = << >>
    THEN [ ok |-> FALSE, error |-> "Database URL cannot be empty" ]
    ELSE IF ~starts_with(self.url, "postgresql://")
            /\ ~starts_with(self.url, "postgres://")
    THEN [ ok |-> FALSE,
           error |-> "Database URL must be a PostgreSQL connection string" ]
    ELSE IF self.max_connections = 0
    THEN [ ok |-> FALSE, error |-> "max_connections must be greater than 0" ]
    ELSE IF self.min_connections > self.max_connections
    THEN [ ok |-> FALSE,
           error |-> "min_connections cannot be greater than max_connections" ]
    ELSE IF self.acquire_timeout_seconds = 0
    THEN [ ok |-> FALSE,
           error |-> "acquire_timeout_seconds must be greater than 0" ]
    ELSE [ ok |-> TRUE ]

\* Variant of the loop's exit test that allows one more attempt.
retries_exhausted_Late(retry_count) == retry_count > max_retries

\* if retry_count >= max_retries { return Err(..) }
retries_exhausted(retry_count) == retry_count >= max_retries

Urls ==
    { << >>,
      <<"mysql://", "localhost/healthcare_emergency">>,
      <<"postgresql://", "admin:welcome@localhost:5432/healthcare_emergency">>,
      <<"postgres://", "localhost/healthcare_emergency">> }

DatabaseConfigs ==
    [ url : Urls,
      max_connections : {0, 1, 100},
      min_connections : {0, 5},
      acquire_timeout_seconds : {0, 30} ]

\* The run of config.create_pool(): `at` is the await point the call has
\* reached, retry_count the local of create_pool_with_retry, attempts the
\* number of connect_with calls made, slept the seconds spent in
\* tokio::time::sleep, result the value returned (None while running).
InitPool ==
    /\ \E config \in DatabaseConfigs :
           db = [ config |-> config, at |-> "create_pool", retry_count |-> 0,
                  attempts |-> 0, slept |-> 0, result |-> None ]
    /\ patient = Patient_new("PAT-001", Some("784-1990-1234567-1"),
                             "Ahmed", "Al-Rashid", "Critical", 0)
    /\ hospital = Hospital_new(0, 0)
    /\ staff = MedicalStaff_new("Junior", << >>, 0)
    /\ vitals = PatientVitals_new
    /\ err = NoError
    /\ now = 0
    /\ visited = <<"Dispatched">>
    /\ list = NoList
    /\ request = NoLogin
    /\ ret = NoCall
    /\ pc = NoRequests
    /\ beds = NoBeds

PoolUnchanged ==
    UNCHANGED <<patient, hospital, staff, vitals, err, now, ret, pc, beds,
                visited, list, request>>

\* create_pool up to the call of create_pool_with_retry: validate()?, then
\* self.url.parse()?, whose outcome is the library's (either one).
CreatePool ==
    /\ db.at = "create_pool"
    /\ LET v == DatabaseConfig_validate(db.config) IN
       IF ~v.ok
       THEN db' = [ db EXCEPT !.at = "done",
                       !.result = Some([ ok |-> FALSE,
                           error |-> <<"Database configuration validation failed",
                                       v.error>> ]) ]
       ELSE \E parsed \in BOOLEAN :
                db' = IF parsed
                      THEN [ db EXCEPT !.at = "connect" ]
                      ELSE [ db EXCEPT !.at = "done",
                                 !.result = Some([ ok |-> FALSE,
                                     error |-> <<"Failed to parse database URL">> ]) ]
    /\ PoolUnchanged

\* One turn of the loop up to its return or its sleep: connect_with either
\* yields the pool or an error.
Connect ==
    /\ db.at = "connect"
    /\ \E connected \in BOOLEAN :
           LET retry_count == db.retry_count + 1 IN
           db' = IF connected
                 THEN [ db EXCEPT !.attempts = @ + 1, !.at = "done",
                            !.result = Some([ ok |-> TRUE ]) ]
                 ELSE IF retries_exhausted(retry_count)
                 THEN [ db EXCEPT !.attempts = @ + 1, !.at = "done",
                            !.retry_count = retry_count,
                            !.result = Some([ ok |-> FALSE,
                                error |-> <<"Failed to create database pool after ",
                                            ToString(max_retries), " retries">> ]) ]
                 ELSE [ db EXCEPT !.attempts = @ + 1, !.at = "sleep",
                            !.retry_count = retry_count ]
    /\ PoolUnchanged

\* tokio::time::sleep(Duration::from_secs(2)).await, then the next turn.
Sleep ==
    /\ db.at = "sleep"
    /\ db' = [ db EXCEPT !.slept = @ + retry_delay_seconds, !.at = "connect" ]
    /\ PoolUnchanged

NextPool == CreatePool \/ Connect \/ Sleep

SpecPool == InitPool /\ [][NextPool]_vars

\* The runtime keeps polling the future, connect_with resolves (the pool's
\* acquire timeout is positive after validate) and the sleep elapses.
SpecPoolFair == SpecPool /\ WF_vars(NextPool)

\* ------------------------------------------------------------------------
\* dtos::auth::LoginRequest.  A String is the sequence of its chars; a char
\* is named by a token: " ", "a", "A" (one byte each in UTF-8) and "U+00E9"
\* (e with acute accent, two bytes).
Chars == {" ", "a", "A", "U+00E9"}

\* String::len: the length in bytes, the sum of the chars' len_utf8.
RECURSIVE String_len(_)
String_len(s) ==
    LET len_utf8(c) == IF c = "U+00E9" THEN 2 ELSE 1
    IN  IF s = << >> THEN 0 ELSE len_utf8(Head(s)) + String_len(Tail(s))

\* str::trim: the string without its leading and trailing whitespace.
RECURSIVE trim(_)
trim(s) ==
    LET is_whitespace(c) == c = " "
    IN  IF s # << >> /\ is_whitespace(Head(s)) THEN trim(Tail(s))
        ELSE IF s # << >> /\ is_whitespace(s[Len(s)])
        THEN trim(SubSeq(s, 1, Len(s) - 1))
        ELSE s

\* str::to_lowercase
to_lowercase(s) == [ i \in DOMAIN s |-> IF s[i] = "A" THEN "a" ELSE s[i] ]

LoginRequest_validate(self) ==
    IF trim(self.username) = << >>
    THEN [ ok |-> FALSE, error |-> "Username is required" ]
    ELSE IF String_len(self.username) < 3
    THEN [ ok |-> FALSE, error |-> "Username must be at least 3 characters" ]
    ELSE IF self.password = << >>
    THEN [ ok |-> FALSE, error |-> "Password is required" ]
    ELSE IF String_len(self.password) < 6
    THEN [ ok |-> FALSE, error |-> "Password must be at least 6 characters" ]
    ELSE [ ok |-> TRUE ]

sanitized_username(self) == to_lowercase(trim(self.username))

LoginRequest_new(username, password) ==
    [ username |-> username, password |-> password ]

SeqsUpTo(S, n) == UNION { [1..k -> S] : k \in 0..n }

InitLogin ==
    /\ \E username \in SeqsUpTo(Chars, MaxUsername),
          password \in SeqsUpTo({"a"}, MaxPassword)
                           \cup SeqsUpTo({"U+00E9"}, 3) :
           request = LoginRequest_new(username, password)
    /\ patient = Patient_new("PAT-001", Some("784-1990-1234567-1"),
                             "Ahmed", "Al-Rashid", "Critical", 0)
    /\ hospital = Hospital_new(0, 0)
    /\ staff = MedicalStaff_new("Junior", << >>, 0)
    /\ vitals = PatientVitals_new
    /\ err = NoError
    /\ now = 0
    /\ visited = <<"Dispatched">>
    /\ db = NoDatabase
    /\ list = NoList
    /\ ret = NoCall
    /\ pc = NoRequests
    /\ beds = NoBeds

LoginUnchanged ==
    UNCHANGED <<patient, hospital, staff, vitals, err, now, pc, beds,
                visited, db, list, request>>

\* request.validate()
Validate ==
    /\ ret' = [ op |-> "validate", value |-> LoginRequest_validate(request) ]
    /\ LoginUnchanged

\* request.sanitized_username()
SanitizedUsername ==
    /\ ret' = [ op |-> "sanitized_username",
                value |-> sanitized_username(request) ]
    /\ LoginUnchanged

NextLogin == Validate \/ SanitizedUsername

SpecLogin == InitLogin /\ [][NextLogin]_vars

\* ------------------------------------------------------------------------
\* dtos::hospital::HospitalListResponse.  Of a HospitalSummary the fields the
\* list operations read are kept: name, available_beds (i32) and distance_km.
HospitalNames == <<"Hospital A", "Hospital B">>

\* String's Ord on the names above: a name is less than the ones after it.
String_lt(a, b) ==
    \E i, j \in DOMAIN HospitalNames :
        HospitalNames[i] = a /\ HospitalNames[j] = b /\ i < j

\* slice::sort_by with a comparator, given as the set of the pairs <<a, b>>
\* of entries it orders as Less: a stable sort, each entry inserted behind
\* the entries it is not less than.
sort_by(v, less) ==
    LET insert(t, x) ==
            LET k == Cardinality({ j \in DOMAIN t : <<x, t[j]>> \notin less })
            IN  SubSeq(t, 1, k) \o <<x>> \o SubSeq(t, k + 1, Len(t))
        sorted[i \in 0..Len(v)] ==
            IF i = 0 THEN << >> ELSE insert(sorted[i - 1], v[i])
    IN  sorted[Len(v)]

HospitalListResponse_new(hospitals) ==
    [ hospitals |-> hospitals, total_count |-> Len(hospitals) ]

\* b.available_beds.cmp(&a.available_beds).then_with(|| a.name.cmp(&b.name))
sort_by_availability(self) ==
    LET Less(a, b) ==
            \/ b.available_beds < a.available_beds
            \/ /\ b.available_beds = a.available_beds
               /\ String_lt(a.name, b.name)
        entries == { self.hospitals[i] : i \in DOMAIN self.hospitals }
    IN  [ self EXCEPT !.hospitals =
              sort_by(@, { p \in entries \X entries : Less(p[1], p[2]) }) ]

\* The match on (a.distance_km, b.distance_km).
sort_by_distance(self) ==
    LET Less(a, b) ==
            IF a.distance_km # None /\ b.distance_km # None
            THEN a.distance_km[1] < b.distance_km[1]
            ELSE IF a.distance_km # None THEN TRUE
            ELSE IF b.distance_km # None THEN FALSE
            ELSE String_lt(a.name, b.name)
        entries == { self.hospitals[i] : i \in DOMAIN self.hospitals }
    IN  [ self EXCEPT !.hospitals =
              sort_by(@, { p \in entries \X entries : Less(p[1], p[2]) }) ]

\* Variant of with_available_beds that leaves total_count as it was.
with_available_beds_StaleCount(self) ==
    [ self EXCEPT
        !.hospitals = SelectSeq(@, LAMBDA h : h.available_beds > 0) ]

with_available_beds(self) ==
    LET retained == SelectSeq(self.hospitals, LAMBDA h : h.available_beds > 0)
    IN  [ self EXCEPT !.hospitals = retained, !.total_count = Len(retained) ]

HospitalSummaries ==
    [ name : { HospitalNames[i] : i \in DOMAIN HospitalNames },
      available_beds : {-1, 0, 50},
      distance_km : {None, Some(1), Some(2)} ]

InitList ==
    /\ \E hospitals \in SeqsUpTo(HospitalSummaries, MaxHospitals) :
           list = HospitalListResponse_new(hospitals)
    /\ patient = Patient_new("PAT-001", Some("784-1990-1234567-1"),
                             "Ahmed", "Al-Rashid", "Critical", 0)
    /\ hospital = Hospital_new(0, 0)
    /\ staff = MedicalStaff_new("Junior", << >>, 0)
    /\ vitals = PatientVitals_new
    /\ err = NoError
    /\ now = 0
    /\ visited = <<"Dispatched">>
    /\ db = NoDatabase
    /\ request = NoLogin
    /\ ret = NoCall
    /\ pc = NoRequests
    /\ beds = NoBeds

ListUnchanged ==
    UNCHANGED <<patient, hospital, staff, vitals, err, now, pc, beds,
                visited, db, request>>

\* list = list.sort_by_availability(); ret keeps the list it was given.
SortByAvailability ==
    /\ list' = sort_by_availability(list)
    /\ ret' = [ op |-> "sort_by_availability", before |-> list.hospitals ]
    /\ ListUnchanged

\* list = list.sort_by_distance()
SortByDistance ==
    /\ list' = sort_by_distance(list)
    /\ ret' = [ op |-> "sort_by_distance", before |-> list.hospitals ]
    /\ ListUnchanged

\* list = list.with_available_beds()
WithAvailableBeds ==
    /\ list' = with_available_beds(list)
    /\ ret' = [ op |-> "with_available_beds", before |-> list.hospitals ]
    /\ ListUnchanged

NextList == SortByAvailability \/ SortByDistance \/ WithAvailableBeds

SpecList == InitList /\ [][NextList]_vars

\* ------------------------------------------------------------------------
\* dtos::patient::PatientResponse and PatientSummary, the fields that the
\* display names are made of.
PatientResponse_from_patient(patient_) ==
    [ patient_number |-> patient_.patient_number,
      first_name     |-> patient_.first_name,
      last_name      |-> patient_.last_name,
      triage_level   |-> patient_.triage_level,
      status         |-> patient_.status ]

PatientResponse_full_name(self) == <<self.first_name, " ", self.last_name>>

PatientResponse_display_name(self) ==
    IF self.first_name = "" \/ self.last_name = ""
    THEN <<"Anonymous Patient (", self.patient_number, ")">>
    ELSE PatientResponse_full_name(self)

PatientSummary_from_patient(patient_) ==
    [ patient_number |-> patient_.patient_number,
      display_name   |-> Patient_display_name(patient_),
      triage_level   |-> patient_.triage_level,
      status         |-> patient_.status ]

InitDisplay ==
    /\ \E patient_number \in {"PAT-001", "PAT-002"},
          national_id \in {None, Some(""), Some("784-1990-1234567-1")},
          first_name \in {"", "Ahmed", "Fatima"},
          last_name \in {"", "Al-Rashid"},
          triage_level \in TriageLevels :
           patient = Patient_new(patient_number, national_id, first_name,
                                 last_name, triage_level, 0)
    /\ hospital = Hospital_new(0, 0)
    /\ staff = MedicalStaff_new("Junior", << >>, 0)
    /\ vitals = PatientVitals_new
    /\ err = NoError
    /\ now = 0
    /\ visited = <<"Dispatched">>
    /\ db = NoDatabase
    /\ list = NoList
    /\ request = NoLogin
    /\ ret = NoCall
    /\ pc = NoRequests
    /\ beds = NoBeds

DisplayUnchanged ==
    UNCHANGED <<patient, hospital, staff, vitals, err, now, pc, beds,
                visited, db, list, request>>

\* PatientResponse::from_patient(&patient).display_name()
ResponseDisplayName ==
    /\ ret' = [ op |-> "PatientResponse::display_name",
                value |-> PatientResponse_display_name(
                              PatientResponse_from_patient(patient)) ]
    /\ DisplayUnchanged

\* PatientSummary::from_patient(&patient).display_name
SummaryDisplayName ==
    /\ ret' = [ op |-> "PatientSummary::display_name",
                value |-> PatientSummary_from_patient(patient).display_name ]
    /\ DisplayUnchanged

NextDisplay == ResponseDisplayName \/ SummaryDisplayName

SpecDisplay == InitDisplay /\ [][NextDisplay]_vars

\* ============================================================ claims
\* r is the stage that follows s in the chain
\* Dispatched -> EnRoute -> Arrived -> Admitted -> Discharged.
IsSuccessor(s, r) == workflow_order(r) = workflow_order(s) + 1

\* The last update_status call wrote the patient (status and updated_at).
StatusWritten == patient.status = ret.requested /\ patient.updated_at = now

\* C1: update_status changes the status to the requested one if and only if
\* the requested status is the single successor of the current status in the
\* chain; from Discharged, which is terminal, no request is applied.
C1_AppliedIffSuccessor ==
    ret.op = "update_status" =>
        /\ StatusWritten <=> IsSuccessor(ret.current, ret.requested)
        /\ ~IsSuccessor(ret.current, ret.requested) => patient.status = ret.current

\* C2: a status-change request that is not a valid transition is reported to
\* the caller as an invalid-status-transition failure carrying the current and
\* the requested status, and a valid request is accepted; the call's result
\* alone tells an applied transition from a rejected one.
C2_InvalidTransitionReported ==
    ret.op = "update_status" =>
        IF IsSuccessor(ret.current, ret.requested)
        THEN ret.value = Unit
        ELSE ret.value = [ type      |-> "Patient",
                           variant   |-> "InvalidStatusTransition",
                           current   |-> ret.current,
                           requested |-> ret.requested ]

\* C3: over any sequence of update_status calls the workflow_order of the
\* patient's status never decreases from one state to the next.
C3_StatusOnlyAdvances ==
    [][workflow_order(patient'.status) >= workflow_order(patient.status)]_vars

OccupiedMoreThan(h, pct) ==
    h.total_beds > 0 /\ (h.total_beds - h.available_beds) * 100 > pct * h.total_beds

\* The bucket C9 describes, with "Full" decided by the given condition.
C9_Bucket(h, full) ==
    IF full THEN "Full"
    ELSE IF OccupiedMoreThan(h, 90) THEN "Nearly Full"
    ELSE IF OccupiedMoreThan(h, 70) THEN "Busy"
    ELSE "Available"

Granted == {p \in DOMAIN pc : pc[p] = "granted"}
Refused == {p \in DOMAIN pc : pc[p] = "at_capacity"}

\* C5: of two concurrent assignment requests against a hospital with exactly
\* one available bed, exactly one is granted and the other fails for capacity;
\* in no interleaving are more beds granted than were available.
C5_LastBedGrantedOnce ==
    ret.op = "assign_bed" =>
        /\ Cardinality(Granted) <= ret.available_beds
        /\ (ret.available_beds = 1 /\ Granted \cup Refused = Requests)
               => (Cardinality(Granted) = 1 /\ Cardinality(Refused) = 1)

\* None of the changes of the assignment is visible.
NoneVisible ==
    /\ hospital.available_beds = ret.hospital.available_beds
    /\ staff.availability_status = ret.staff.availability_status
    /\ patient.bed_id = None
    /\ patient.assigned_staff_id = None

\* All the changes of the assignment are visible.
AllVisible ==
    /\ hospital.available_beds = ret.hospital.available_beds - 1
    /\ staff.availability_status = "Busy"
    /\ patient.bed_id # None
    /\ patient.assigned_staff_id # None

\* C6: assigning a bed and a staff member is all-or-nothing: once the
\* assignment has ended (done, failed or aborted after any step), either all
\* of its changes are visible or none is.
C6_AssignAllOrNothing ==
    (ret.op = "assign" /\ pc["txn"] \in {"done", "failed", "aborted"}) =>
        NoneVisible \/ AllVisible

\* The four metrics of a vitals record that are present: blood pressure (both
\* readings), heart rate, oxygen saturation, temperature.
PresentMetrics(v) ==
    {i \in DOMAIN assessments(v) : assessments(v)[i] # "Unknown"}

\* C7: overall_assessment returns Unknown only when all four metrics are
\* absent; when at least one metric is present and every present metric
\* assesses as Normal the overall result is Normal, whatever is missing.
C7_NormalWhenPresentNormal ==
    ret.op = "overall_assessment" =>
        /\ ret.value = "Unknown" => PresentMetrics(vitals) = {}
        /\ ( /\ PresentMetrics(vitals) # {}
             /\ \A i \in PresentMetrics(vitals) : assessments(vitals)[i] = "Normal" )
           => ret.value = "Normal"

\* Some per-metric assessment of v is the severity sev.
AnyIs(v, sev) == \E i \in DOMAIN assessments(v) : assessments(v)[i] = sev

\* C8: overall_assessment is Critical if any per-metric assessment is
\* Critical, otherwise High if any is High, otherwise Low if any is Low;
\* absent metrics never raise the result.
C8_WorstCasePrecedence ==
    ret.op = "overall_assessment" =>
        /\ AnyIs(vitals, "Critical") => ret.value = "Critical"
        /\ (~AnyIs(vitals, "Critical") /\ AnyIs(vitals, "High")) => ret.value = "High"
        /\ ( /\ ~AnyIs(vitals, "Critical")
             /\ ~AnyIs(vitals, "High")
             /\ AnyIs(vitals, "Low") ) => ret.value = "Low"
        /\ ret.value \in {"Critical", "High", "Low"} => AnyIs(vitals, ret.value)

\* C8 witness: a record with absent metrics, a Low blood pressure and a High
\* oxygen saturation was assessed High.
C8_Witness ==
    /\ ret.op = "overall_assessment"
    /\ vitals.heart_rate = None
    /\ vitals.temperature = None
    /\ bp_assessment(vitals) = "Low"
    /\ o2_assessment(vitals) = "High"
    /\ ret.value = "High"

\* The status code of the bucket table, with the three entries the claim of
\* C10 and the code disagree on given as parameters.
C10_Table(e, transition, triage, staffNA) ==
    CASE e.type = "Patient" /\ e.variant = "NotFound"                 -> 404
      [] e.type = "Hospital" /\ e.variant = "NotFound"                -> 404
      [] e.type = "Hospital" /\ e.variant = "BedNotFound"             -> 404
      [] e.type = "Patient" /\ e.variant = "AlreadyAssigned"          -> 409
      [] e.type = "Hospital" /\ e.variant = "BedOccupied"             -> 409
      [] e.type = "Hospital" /\ e.variant = "StaleCapacityData"       -> 409
      [] e.type = "Patient" /\ e.variant = "InvalidData"              -> 400
      [] e.type = "Patient" /\ e.variant = "InvalidVitalSigns"        -> 400
      [] e.type = "Patient" /\ e.variant = "InvalidStatusTransition"  -> transition
      [] e.type = "Patient" /\ e.variant = "TriageChangeNotPermitted" -> triage
      [] e.type = "Hospital" /\ e.variant = "IncompatibleBedType"     -> 422
      [] e.type = "Patient" /\ e.variant = "MinorConsentRequired"     -> 422
      [] e.type = "Patient" /\ e.variant = "AllergyConflict"          -> 422
      [] e.type = "Hospital" /\ e.variant = "AtCapacity"              -> 503
      [] e.type = "Patient" /\ e.variant = "StaffNotAvailable"        -> staffNA
      [] e.type = "Hospital" /\ e.variant = "UnderMaintenance"        -> 503
      [] OTHER -> 0

\* The errors the table of C10 names.
C10_InTable(e) == C10_Table(e, 1, 1, 1) # 0

\* C10 as stated: not-found -> 404, conflict -> 409, validation (with invalid
\* status transition) -> 400, policy (with triage-change-not-permitted) -> 422,
\* availability (with staff-not-available) -> 503.
C10_BucketTable ==
    (ret.op = "status_code" /\ C10_InTable(err)) =>
        ret.value = C10_Table(err, 400, 422, 503)

\* C10 (amended): the same table, except that invalid status transition maps
\* to 422, triage-change-not-permitted to 403 and staff-not-available to 409.
C10_BucketTableOfCode ==
    (ret.op = "status_code" /\ C10_InTable(err)) =>
        ret.value = C10_Table(err, 422, 403, 409)

\* C10 witness: status_code was called on the invalid status transition
\* Dispatched -> Discharged and answered 422.
C10_Witness ==
    /\ ret.op = "status_code"
    /\ err.type = "Patient"
    /\ err.variant = "InvalidStatusTransition"
    /\ err.current = "Dispatched"
    /\ err.requested = "Discharged"
    /\ ret.value = 422

\* ------------------------------------------------------------------- C11
\* Every staff member another member can be compared with: any availability,
\* any seniority string.
AnyStaff ==
    { update_availability(MedicalStaff_new(seniority_level, << >>, 0), status, 0) :
        seniority_level \in SeniorityInputs, status \in AvailabilityStatuses }

\* C11: assignment_priority is the availability priority (Available 1,
\* OnCall 2, Busy 3, OffDuty 4) times ten plus the seniority bonus (Director
\* 0, Consultant 1, Senior 2, Junior 3, anything else 4); against every other
\* staff member, one of the same availability and a smaller bonus scores
\* strictly lower, and one of a better availability scores strictly lower
\* whatever the two seniorities.
C11_PriorityMonotonic ==
    ret.op = "assignment_priority" =>
        /\ \E a \in 1..4, b \in 0..4 :
              /\ a = CASE staff.availability_status = "Available" -> 1
                        [] staff.availability_status = "OnCall"    -> 2
                        [] staff.availability_status = "Busy"      -> 3
                        [] staff.availability_status = "OffDuty"   -> 4
              /\ b = CASE staff.seniority_level = "Director"   -> 0
                        [] staff.seniority_level = "Consultant" -> 1
                        [] staff.seniority_level = "Senior"     -> 2
                        [] staff.seniority_level = "Junior"     -> 3
                        [] OTHER                                -> 4
              /\ ret.value = a * 10 + b
        /\ \A other \in AnyStaff :
              LET theirs == MedicalStaff_assignment_priority(other)
                  better(x, y) ==
                      AvailabilityStatus_assignment_priority(x.availability_status)
                          < AvailabilityStatus_assignment_priority(y.availability_status)
                  senior(x, y) ==
                      /\ x.availability_status = y.availability_status
                      /\ seniority_bonus(x.seniority_level)
                            < seniority_bonus(y.seniority_level)
              IN  /\ (better(staff, other) \/ senior(staff, other)) => ret.value < theirs
                  /\ (better(other, staff) \/ senior(other, staff)) => theirs < ret.value

\* C11 witness: a Busy Director was scored 30, above every Available member
\* (a Resident of unnamed seniority included, at 14).
C11_Witness ==
    /\ ret.op = "assignment_priority"
    /\ staff.availability_status = "Busy"
    /\ staff.seniority_level = "Director"
    /\ ret.value = 30
    /\ \E other \in AnyStaff :
          /\ other.availability_status = "Available"
          /\ other.seniority_level = "Resident"
          /\ MedicalStaff_assignment_priority(other) = 14

C13_SuitabilityTable ==
    ret.op = "is_suitable_for_triage" =>
        ret.value =
            ( patient.triage_level \in
                CASE ret.bed_type = "Icu"       -> {"Critical"}
                  [] ret.bed_type = "Emergency" -> {"Critical", "High"}
                  [] ret.bed_type = "General"   -> {"Medium", "Low"}
                  [] ret.bed_type = "Isolation" -> {"Critical", "High", "Medium", "Low"}
                  [] ret.bed_type = "Pediatric" -> {} )

\* C13 witness: an Emergency bed was found suitable for a High patient.
C13_Witness ==
    /\ ret.op = "is_suitable_for_triage"
    /\ ret.bed_type = "Emergency"
    /\ patient.triage_level = "High"
    /\ ret.value = TRUE

\* ------------------------------------------------------------------- C14
\* C14: suggested_triage answers Critical for an overall severity of
\* Critical, High for High, Medium for Low, Low for Normal, and nothing
\* exactly when the overall severity is Unknown.
C14_SuggestedTriageMap ==
    ret.op = "suggested_triage" =>
        LET overall == overall_assessment(vitals)
        IN  /\ overall = "Critical" => ret.value = Some("Critical")
            /\ overall = "High"     => ret.value = Some("High")
            /\ overall = "Low"      => ret.value = Some("Medium")
            /\ overall = "Normal"   => ret.value = Some("Low")
            /\ (ret.value = None) <=> (overall = "Unknown")

\* C14 witness: a low blood pressure with every other reading normal, an
\* overall severity of Low, was answered with triage Medium.
C14_Witness ==
    /\ ret.op = "suggested_triage"
    /\ vitals.systolic_bp = Some(85)
    /\ vitals.diastolic_bp = Some(55)
    /\ vitals.heart_rate = Some(75)
    /\ vitals.oxygen_saturation = Some(98)
    /\ vitals.temperature = Some(370)
    /\ overall_assessment(vitals) = "Low"
    /\ ret.value = Some("Medium")

\* ------------------------------------------------------------------- C15
\* The vitals 190/125, heart rate 75, saturation 98, temperature 37.0.
C15_Scenario ==
    /\ vitals.systolic_bp = Some(190)
    /\ vitals.diastolic_bp = Some(125)
    /\ vitals.heart_rate = Some(75)
    /\ vitals.oxygen_saturation = Some(98)
    /\ vitals.temperature = Some(370)

\* C15: is_emergency is true exactly when the overall severity is Critical
\* or High, which is exactly when suggested_triage answers a level that
\* TriageLevel::is_emergency accepts; the vitals of the scenario are of
\* overall severity Critical, suggested triage Critical, and an emergency.
C15_EmergencyIffCriticalOrHigh ==
    ret.op = "is_emergency" =>
        LET suggestion == suggested_triage(vitals)
        IN  /\ ret.value \in BOOLEAN
            /\ ret.value <=> (overall_assessment(vitals) \in {"Critical", "High"})
            /\ ret.value <=> (suggestion # None /\ TriageLevel_is_emergency(suggestion[1]))
            /\ C15_Scenario =>
                  /\ overall_assessment(vitals) = "Critical"
                  /\ suggestion = Some("Critical")
                  /\ ret.value = TRUE

\* C15 witness: is_emergency was asked of the vitals of the scenario and
\* answered true.
C15_Witness ==
    /\ ret.op = "is_emergency"
    /\ C15_Scenario
    /\ ret.value = TRUE

\* ------------------------------------------------------------------- C16
\* C16: bp_assessment is Unknown unless both readings are present; with
\* both, Critical if systolic >= 180 or diastolic >= 120, else High if
\* systolic >= 140 or diastolic >= 90, else Low if systolic < 90 or
\* diastolic < 60, else Normal; so 185/50 is Critical and 150/50 is High.
C16_BpOrder ==
    ret.op = "bp_assessment" =>
        LET present == vitals.systolic_bp # None /\ vitals.diastolic_bp # None
            sys == vitals.systolic_bp[1]
            dia == vitals.diastolic_bp[1]
        IN  /\ (ret.value = "Unknown") <=> ~present
            /\ present =>
                  LET critical == sys >= 180 \/ dia >= 120
                      high     == sys >= 140 \/ dia >= 90
                      low      == sys < 90 \/ dia < 60
                  IN  /\ critical => ret.value = "Critical"
                      /\ (~critical /\ high) => ret.value = "High"
                      /\ (~critical /\ ~high /\ low) => ret.value = "Low"
                      /\ (~critical /\ ~high /\ ~low) => ret.value = "Normal"
                      /\ (sys = 185 /\ dia = 50) => ret.value = "Critical"
                      /\ (sys = 150 /\ dia = 50) => ret.value = "High"

\* C16 witness: the reading 150/50, high in the systolic and low in the
\* diastolic, was assessed High.
C16_Witness ==
    /\ ret.op = "bp_assessment"
    /\ vitals.systolic_bp = Some(150)
    /\ vitals.diastolic_bp = Some(50)
    /\ ret.value = "High"

\* ------------------------------------------------------------------- C17
\* C17: update_availability sets the status it is given; can_take_assignment
\* then answers true exactly for Available and OnCall, and is_working exactly
\* for Available, Busy and OnCall, of the status last set, neither query
\* changing the staff member; whoever can take an assignment is working.
C17_AvailabilityQueries ==
    [][ /\ ret'.op = "update_availability" =>
              staff'.availability_status = ret'.status
        /\ ret'.op = "can_take_assignment" =>
              /\ staff' = staff
              /\ ret'.value = (staff.availability_status \in {"Available", "OnCall"})
        /\ ret'.op = "is_working" =>
              /\ staff' = staff
              /\ ret'.value = (staff.availability_status \in {"Available", "Busy", "OnCall"})
        /\ MedicalStaff_can_take_assignment(staff') => MedicalStaff_is_working(staff')
      ]_vars

\* C17 witness: after two status updates, the last one to OnCall, the staff
\* member was found able to take an assignment.
C17_Witness ==
    /\ ret.op = "can_take_assignment"
    /\ staff.availability_status = "OnCall"
    /\ staff.updated_at = 2
    /\ ret.value = TRUE

\* ------------------------------------------------------------------- C18
\* No value is stored twice in the list.
NoDuplicates(items) ==
    \A i, j \in DOMAIN items : i # j => items[i] # items[j]

\* C18, for the staff record: after any add_certification call on a staff
\* record that was created by MedicalStaff::new, the stored certifications
\* hold no value twice.
C18_CertificationsNoDuplicates ==
    ret.op = "add_certification" => NoDuplicates(staff.certifications)

\* C18, for the patient: after any add_allergy calls on a new patient the
\* stored allergies hold no value twice, and adding a stored value leaves
\* the patient, updated_at included, as it was.
C18_AllergiesNoDuplicates ==
    [][ /\ NoDuplicates(patient'.allergies)
        /\ (ret'.op = "add_allergy" /\ now' = now + 1
              /\ Contains(patient.allergies, ret'.allergy)) => patient' = patient
      ]_vars

\* ------------------------------------------------------------------- C19
\* C19: no call changes the patient's triage_level: not overall_assessment
\* or suggested_triage on the vitals, not update_status, assign_staff,
\* assign_ambulance, assign_bed or add_allergy on the patient.
C19_TriageLevelKept ==
    [][patient'.triage_level = patient.triage_level]_vars

\* C19 witness: a patient triaged Low is en route, has a bed and an allergy
\* on record, and vitals for which suggested_triage has just answered
\* Critical; the triage level is still Low.
C19_Witness ==
    /\ ret.op = "suggested_triage"
    /\ ret.value = Some("Critical")
    /\ patient.triage_level = "Low"
    /\ patient.status = "EnRoute"
    /\ patient.bed_id # None
    /\ patient.allergies # << >>

\* ------------------------------------------------------------------- C20
\* C20: an update_status call whose requested status is not the successor
\* of the current one leaves the whole patient as it was: status,
\* updated_at, triage_level and the assigned ids.
C20_RejectedUnchanged ==
    [][ (ret'.op = "update_status" /\ now' = now + 1
          /\ ~IsSuccessor(patient.status, ret'.requested)) => patient' = patient
      ]_vars

\* ------------------------------------------------------------------- C21
\* C21: the response made from a hospital says it accepts patients if and
\* only if the hospital has at least one available bed and its status is
\* Active; a hospital in Maintenance or Emergency Only, or with no available
\* bed, is never said to accept patients.
C21_AcceptingIffBedAndActive ==
    ret.op = "can_accept_patients" =>
        /\ ret.value = (hospital.available_beds >= 1 /\ hospital.status = "Active")
        /\ hospital.status \in {"Maintenance", "Emergency Only"} => ret.value = FALSE
        /\ hospital.available_beds = 0 => ret.value = FALSE

\* C21 witness: a hospital under Maintenance with available beds was
\* reported as not accepting patients.
C21_Witness ==
    /\ ret.op = "can_accept_patients"
    /\ hospital.status = "Maintenance"
    /\ hospital.available_beds > 0
    /\ ret.value = FALSE

\* ------------------------------------------------------------------- C22
\* What the domain error itself answers, by its own type.
C22_Inner(e) ==
    CASE e.type = "Auth" ->
            [ status_code |-> AuthError_status_code(e),
              error_code |-> AuthError_error_code(e),
              user_message |-> AuthError_user_message(e) ]
      [] e.type = "Patient" ->
            [ status_code |-> PatientError_status_code(e),
              error_code |-> PatientError_error_code(e),
              user_message |-> PatientError_user_message(e) ]
      [] e.type = "Hospital" ->
            [ status_code |-> HospitalError_status_code(e),
              error_code |-> HospitalError_error_code(e),
              user_message |-> HospitalError_user_message(e) ]

\* C22: for every AuthError, PatientError or HospitalError, the AppError that
\* wraps it answers status_code, error_code and user_message as the error
\* itself does, and the variant it holds is the error, unchanged.
C22_WrappingLossless ==
    /\ AppError_from(err).variant \in {"Auth", "Patient", "Hospital"}
    /\ AppError_from(err).inner = err
    /\ ret.op = "status_code" => ret.value = C22_Inner(err).status_code
    /\ ret.op = "error_code" => ret.value = C22_Inner(err).error_code
    /\ ret.op = "user_message" => ret.value = C22_Inner(err).user_message

\* C22 witness: the wrapped HospitalError::NotAcceptingPatients answered the
\* user message of the hospital error, its status put in.
C22_Witness ==
    /\ ret.op = "user_message"
    /\ err.type = "Hospital"
    /\ err.variant = "NotAcceptingPatients"
    /\ ret.value = <<"Hospital is not currently accepting patients (", err.status, ")">>

\* ------------------------------------------------------------------- C23
\* AppError::Auth(AuthError::InvalidCredentials)
C23_InvalidCredentials ==
    AppError_from([type |-> "Auth", variant |-> "InvalidCredentials"])

\* C23: whatever is handed to the client for AuthError::UserNotFound, of any
\* username, wrapped in AppError, is what is handed to it for
\* AuthError::InvalidCredentials: status 401, code AUTH_INVALID_CREDENTIALS,
\* the same user message, the same response body.
C23_UserNotFoundHidden ==
    (err.type = "Auth" /\ err.variant = "UserNotFound") =>
        /\ ret.op = "status_code" =>
              ret.value = 401 /\ ret.value = AppError_status_code(C23_InvalidCredentials)
        /\ ret.op = "error_code" =>
              /\ ret.value = "AUTH_INVALID_CREDENTIALS"
              /\ ret.value = AppError_error_code(C23_InvalidCredentials)
        /\ ret.op = "user_message" =>
              ret.value = AppError_user_message(C23_InvalidCredentials)
        /\ ret.op = "from_app_error" =>
              ret.value = ApiErrorResponse_from_app_error(C23_InvalidCredentials, now)

\* ------------------------------------------------------------------- C24
\* C24: in the history of a patient made by Patient::new, every status but
\* Dispatched comes after the status before it in the chain (EnRoute after
\* Dispatched, Arrived after EnRoute, Admitted after Arrived, Discharged
\* after Admitted), and the first Discharged is the result of exactly the
\* fourth applied transition.
C24_NoStageSkipped ==
    /\ visited[1] = "Dispatched"
    /\ patient.status = visited[Len(visited)]
    /\ \A i \in DOMAIN visited :
          workflow_order(visited[i]) > 1 =>
              \E j \in 1 .. (i - 1) :
                  workflow_order(visited[j]) = workflow_order(visited[i]) - 1
    /\ \A i \in DOMAIN visited :
          (visited[i] = "Discharged" /\ \A j \in 1 .. (i - 1) : visited[j] # "Discharged")
              => i = 5

\* C24 witness: the patient went through the five stages in four applied
\* transitions and is Discharged.
C24_Witness ==
    /\ ret.op = "update_status"
    /\ patient.status = "Discharged"
    /\ visited = <<"Dispatched", "EnRoute", "Arrived", "Admitted", "Discharged">>

\* ------------------------------------------------------------------- C25
\* C25: the score lies in 10..44, within a u8; against every other staff
\* member, of any seniority string, the one who can take an assignment
\* scores strictly lower than the one who cannot, so that the lower score of
\* the two is never that of a member who cannot while the other can.
C25_AssignableScoresLower ==
    ret.op = "assignment_priority" =>
        /\ ret.value \in 10 .. 44
        /\ ret.value < 256
        /\ \A other \in AnyStaff :
              LET theirs == MedicalStaff_assignment_priority(other)
                  mine_can == staff.availability_status \in {"Available", "OnCall"}
                  theirs_can == other.availability_status \in {"Available", "OnCall"}
              IN  /\ mine_can = MedicalStaff_can_take_assignment(staff)
                  /\ theirs_can = MedicalStaff_can_take_assignment(other)
                  /\ (mine_can /\ ~theirs_can) => ret.value < theirs
                  /\ (theirs_can /\ ~mine_can) => theirs < ret.value
                  /\ (ret.value <= theirs /\ theirs_can) => mine_can

\* C25 witness: a staff member on call, of a seniority the code does not
\* name, was scored 24, below a Busy Director at 30.
C25_Witness ==
    /\ ret.op = "assignment_priority"
    /\ staff.availability_status = "OnCall"
    /\ staff.seniority_level = "Resident"
    /\ ret.value = 24
    /\ \E other \in AnyStaff :
          /\ other.availability_status = "Busy"
          /\ other.seniority_level = "Director"
          /\ MedicalStaff_assignment_priority(other) = 30

\* ------------------------------------------------------------------- C26
\* The loop's bookkeeping: never more than 5 connect attempts; every attempt
\* but a successful last one failed; 2 seconds were slept after each failure
\* that was followed by another attempt; a pool is returned by the first
\* attempt that succeeds; the retry error is returned after exactly 5
\* failed attempts and 4 sleeps.
C26_RetryBookkeeping ==
    /\ db.attempts <= max_retries
    /\ db.at = "connect" =>
           /\ db.attempts = db.retry_count
           /\ db.slept = 2 * db.retry_count
           /\ db.retry_count < 5
    /\ db.at = "sleep" =>
           /\ db.attempts = db.retry_count
           /\ db.slept = 2 * (db.retry_count - 1)
           /\ db.retry_count \in 1..4
    /\ db.at = "done" =>
           /\ db.result # None
           /\ db.result[1].ok =>
                  /\ db.attempts = db.retry_count + 1
                  /\ db.slept = 2 * db.retry_count
           /\ (~db.result[1].ok /\ db.attempts > 0) =>
                  /\ db.attempts = 5
                  /\ db.retry_count = 5
                  /\ db.slept = 8
    /\ db.at # "done" => db.result = None

\* C26: create_pool_with_retry always terminates and makes at most 5
\* connection attempts: it returns the pool at the first successful attempt
\* without further attempts, waits 2 seconds after each of the first four
\* failures, and after the fifth consecutive failure returns an error
\* instead of retrying again.
C26_RetryTerminates ==
    /\ []C26_RetryBookkeeping
    /\ [][db.at = "done" => db' = db]_vars
    /\ <>(db.at = "done")

\* The fifth attempt failed: the error is returned after four sleeps.
C26_Witness ==
    /\ db.at = "done"
    /\ ~db.result[1].ok
    /\ db.attempts = 5
    /\ db.slept = 8

\* ------------------------------------------------------------------- C28
\* The rule the claim has validate report: the first violated one of
\* username-required, username-length, password-required, password-length,
\* the username being the one used for login.
C28_FirstViolated(r) ==
    IF sanitized_username(r) = << >> THEN "Username is required"
    ELSE IF Len(sanitized_username(r)) < 3
    THEN "Username must be at least 3 characters"
    ELSE IF r.password = << >> THEN "Password is required"
    ELSE IF Len(r.password) < 6 THEN "Password must be at least 6 characters"
    ELSE "none"

\* C28: if validate returns Ok then sanitized_username() is non-empty and at
\* least 3 characters long and the password is at least 6 characters long;
\* otherwise validate reports the first violated rule.
C28_ValidatedLoginUsable ==
    ret.op = "validate" =>
        IF ret.value.ok
        THEN /\ sanitized_username(request) # << >>
             /\ Len(sanitized_username(request)) >= 3
             /\ Len(request.password) >= 6
        ELSE ret.value.error = C28_FirstViolated(request)

\* ------------------------------------------------------------------- C27
\* How many entries of the list are x.
Occurrences(v, x) == Cardinality({ i \in DOMAIN v : v[i] = x })

\* C27: after HospitalListResponse::new and any sequence of
\* sort_by_availability, sort_by_distance and with_available_beds,
\* total_count equals the number of hospitals in the list; the sorts only
\* permute the entries, and with_available_beds removes exactly the entries
\* with available_beds <= 0.
C27_TotalCountIsLength ==
    /\ list.total_count = Len(list.hospitals)
    /\ ret.op \in {"sort_by_availability", "sort_by_distance"} =>
           \A x \in HospitalSummaries :
               Occurrences(list.hospitals, x) = Occurrences(ret.before, x)
    /\ ret.op = "with_available_beds" =>
           \A x \in HospitalSummaries :
               Occurrences(list.hospitals, x) =
                   IF x.available_beds <= 0 THEN 0
                   ELSE Occurrences(ret.before, x)

\* A list of three hospitals, one of them without a free bed, was filtered:
\* two are left and counted.
C27_Witness ==
    /\ ret.op = "with_available_beds"
    /\ Len(ret.before) = 3
    /\ Len(list.hospitals) = 2
    /\ list.total_count = 2

\* ------------------------------------------------------------------- C29
\* C29: the detail view and the list view agree on how a patient is named:
\* PatientResponse::from_patient(p).display_name() equals
\* PatientSummary::from_patient(p).display_name, for every patient p.
C29_ViewsAgreeOnName ==
    /\ ret.op = "PatientResponse::display_name" =>
           ret.value = PatientSummary_from_patient(patient).display_name
    /\ ret.op = "PatientSummary::display_name" =>
           ret.value = PatientResponse_display_name(
                           PatientResponse_from_patient(patient))

\* ------------------------------------------------------------------- C30
\* The step is a call of the named assignment method.
AssignStep(op) == ret'.op = op /\ now' = now + 1

\* C30: assign_staff, assign_ambulance and assign_bed each set only their
\* own id field (plus updated_at), to the id given, whatever it held before:
\* none of them changes status or the other two assignment ids (or the
\* triage level or the allergies), in any patient status.
C30_AssignWritesOwnFieldOnly ==
    [][ /\ AssignStep("assign_staff") =>
            /\ patient'.assigned_staff_id = Some(ret'.id)
            /\ patient'.ambulance_id = patient.ambulance_id
            /\ patient'.bed_id = patient.bed_id
        /\ AssignStep("assign_ambulance") =>
            /\ patient'.ambulance_id = Some(ret'.id)
            /\ patient'.assigned_staff_id = patient.assigned_staff_id
            /\ patient'.bed_id = patient.bed_id
        /\ AssignStep("assign_bed") =>
            /\ patient'.bed_id = Some(ret'.id)
            /\ patient'.assigned_staff_id = patient.assigned_staff_id
            /\ patient'.ambulance_id = patient.ambulance_id
        /\ \E op \in {"assign_staff", "assign_ambulance", "assign_bed"} :
               AssignStep(op)
           => /\ patient'.status = patient.status
              /\ patient'.triage_level = patient.triage_level
              /\ patient'.allergies = patient.allergies
              /\ patient'.updated_at = now'
      ]_vars

\* A discharged patient was given a bed: the call went through, and the
\* status is still Discharged.
C30_Witness ==
    /\ patient.status = "Discharged"
    /\ ret.op = "assign_bed"
    /\ patient.bed_id = Some(ret.id)
    /\ patient.updated_at = now
    /\ now = 5

====
